---------------------------- MODULE Spec2Model ----------------------------
(***************************************************************************)
(* Model of the PipeWire backend of OpenAL Soft (alc/backends/pipewire.cpp)*)
(* : the global registry watcher (EventManager, NodeProxy, MetadataProxy), *)
(* the device registry it maintains (DeviceList, DefaultSinkDev,           *)
(* DefaultSourceDev), the initialization barrier (mInitSeq / mInitDone /   *)
(* waitForInit), the application-side operations that read the registry   *)
(* (PipeWirePlayback::open/reset, PipeWireCapture::open,                   *)
(* PipeWireBackendFactory::probe), the native stream of a session (its     *)
(* connection, start, and the data callbacks) and getClockLatency; and of  *)
(* the UHJ encoder utility (utils/uhjencoder.cpp): UhjEncoder::encode, the *)
(* channel mapping and the conversion loop of main.                        *)
(*                                                                         *)
(* C strings are sequences of one-character strings, so that concatenation *)
(* (\o), prefix tests (strncmp) and suffixes (pointer arithmetic) are      *)
(* computed, not assumed.  A null 'const char*' is the value NullStr.      *)
(***************************************************************************)
EXTENDS Integers, Sequences, FiniteSets, TLC

(***************************************************************************)
(* Bounds of the model.                                                    *)
(***************************************************************************)
\* Object ids the server hands out are 1..MaxIds (0 is the core itself).
MaxIds == 2
\* At most this many pw_core_sync round trips are issued in one behaviour.
MaxSyncs == 3
\* The buffers a stream has to hand out are at most MaxBuffers.
MaxBuffers == 2
\* The encoder's filter delay and block size, 1024 in the source, and the
\* samples fed to one encoder in one behaviour.
sFilterDelay == 2
BufferLineSize == 3
MaxFed == 6
\* The frames of an input file of the encoder utility.
MaxFrames == 5
\* The mixes the mixer thread makes.
MaxMixes == 2

(***************************************************************************)
(* Program constants.                                                      *)
(***************************************************************************)
PW_ID_CORE == 0
\* The sample rates the engine accepts.
MIN_OUTPUT_RATE == 8000
MAX_OUTPUT_RATE == 192000
\* PW_ID_ANY is (uint32_t)-1; ids are only ever compared for equality.
PwIdAny == -1
\* static_cast<DevFmtChannels>(255): no channel configuration is known.
InvalidChannelConfig == "InvalidChannelConfig"
\* A null MetadataProxy pointer.
NullProxy == -2

ObjIds == 1..MaxIds

NullStr == <<"<null>">>
EmptyStr == <<>>

MonitorPrefix == <<"M","o","n","i","t","o","r"," ","o","f"," ">>
MonitorPrefixLen == Len(MonitorPrefix)
pwireDevice == <<"P","i","p","e","W","i","r","e"," ","O","u","t","p","u","t">>
pwireInput == <<"P","i","p","e","W","i","r","e"," ","I","n","p","u","t">>
NodeNumberPrefix == <<"P","i","p","e","W","i","r","e"," ","n","o","d","e"," ","#">>

AudioSinkClass == "Audio/Sink"
AudioSourceClass == "Audio/Source"

(***************************************************************************)
(* String helpers.                                                         *)
(***************************************************************************)
\* al::strcasecmp(a, b) == 0 on the strings the server sends in this model.
ToLower(s) ==
    CASE s = "Audio/Sink" -> "audio/sink"
      [] s = "AUDIO/SINK" -> "audio/sink"
      [] s = "Audio/Source" -> "audio/source"
      [] s = "audio/SOURCE" -> "audio/source"
      [] s = "Headphones" -> "headphones"
      [] s = "Headset" -> "headset"
      [] OTHER -> s

StrCaseEq(a, b) == ToLower(a) = ToLower(b)

\* std::strncmp(name, prefix, Len(prefix)) == 0
HasPrefix(name, prefix) ==
    /\ Len(name) >= Len(prefix)
    /\ SubSeq(name, 1, Len(prefix)) = prefix

DropPrefix_Keeps(name, n) == name

\* name + MonitorPrefixLen
DropPrefix(name, n) == SubSeq(name, n + 1, Len(name))

Digit(d) == CASE d = 0 -> "0" [] d = 1 -> "1" [] d = 2 -> "2" [] d = 3 -> "3"
              [] d = 4 -> "4" [] d = 5 -> "5" [] d = 6 -> "6" [] d = 7 -> "7"
              [] d = 8 -> "8" [] d = 9 -> "9"

\* std::to_string(id) for an unsigned id
RECURSIVE to_string(_)
to_string(n) == IF n < 10 THEN <<Digit(n)>>
                ELSE to_string(n \div 10) \o <<Digit(n % 10)>>

(***************************************************************************)
(* Sequence helpers standing for the <algorithm> calls of the source.      *)
(***************************************************************************)
\* std::find_if(list.begin(), list.end(), Test): the index of the first hit,
\* Len(list)+1 standing for list.end().
FindIf(list, Test(_)) ==
    LET hits == {i \in 1..Len(list) : Test(list[i])}
    IN  IF hits = {} THEN Len(list) + 1
        ELSE CHOOSE i \in hits : \A j \in hits : i <= j

End(list) == Len(list) + 1

\* std::remove_if + erase
RemoveIf(list, Test(_)) == SelectSeq(list, LAMBDA n : ~Test(n))

RECURSIVE InsertSorted(_, _)
InsertSorted(sorted, n) ==
    IF sorted = <<>> THEN <<n>>
    ELSE IF n.mId < Head(sorted).mId THEN <<n>> \o sorted
    ELSE <<Head(sorted)>> \o InsertSorted(Tail(sorted), n)

SortById_Keeps(list) == list

\* std::sort(DeviceList.begin(), DeviceList.end(), lhs.mId < rhs.mId)
RECURSIVE SortById(_)
SortById(list) ==
    IF list = <<>> THEN <<>>
    ELSE InsertSorted(SortById(Tail(list)), Head(list))

(***************************************************************************)
(* JSON values of the metadata events, as the token stream spa_json walks. *)
(***************************************************************************)
Quote(s) == <<"\"">> \o s \o <<"\"">>

\* spa_json_parse_string / spa_json_get_string: a quoted token loses its
\* quotes, a bare token is taken as it is.
JsonParseString(tok) ==
    IF Len(tok) >= 2 /\ tok[1] = "\"" /\ tok[Len(tok)] = "\""
    THEN SubSeq(tok, 2, Len(tok) - 1)
    ELSE tok

NameKey == <<"n","a","m","e">>

\* The while loop of MetadataProxy::propertyCallback over the tokens of the
\* object: every "name" key followed by a value assigns the default name, a
\* missing value ends the loop.
RECURSIVE ParseDefaultName(_, _)
ParseDefaultName(tokens, cur) ==
    IF tokens = <<>> THEN cur
    ELSE IF JsonParseString(Head(tokens)) = NameKey
    THEN IF Len(tokens) < 2 THEN cur
         ELSE ParseDefaultName(SubSeq(tokens, 3, Len(tokens)),
                               JsonParseString(tokens[2]))
    ELSE IF Len(tokens) < 2 THEN cur
         ELSE ParseDefaultName(SubSeq(tokens, 3, Len(tokens)), cur)

(***************************************************************************)
(* State.                                                                  *)
(***************************************************************************)
VARIABLES
    \* EventManager
    evt,              \* handles: mLoop, mContext, mCore, mRegistry, started
    mInitDone,
    mInitSeq,
    mCoreListener,    \* the core 'done' listener is installed
    mProxyList,       \* ids of the NodeProxy objects (the vector's order is never read)
    mDefaultMetadata, \* id of the MetadataProxy, or NullProxy
    \* the registry
    DeviceList,
    DefaultSinkDev,
    DefaultSourceDev,
    \* the server side of the watcher's connection
    syncCount,        \* sequence number returned by the last pw_core_sync
    doneQueue,        \* 'done' events the server still has to deliver
    \* the watcher loop's lock and the application thread
    lockOwner,
    appPc,
    appOp,
    \* the backend object (a playback or capture session) and its device
    session,
    mDevice,
    result,           \* what the call that has just finished returned or threw
    \* history: a NodeProxy was removed before the barrier fired
    cancelled,
    \* the uhjencoder program: its UhjEncoder and the locals of main
    uhj

vars == <<evt, mInitDone, mInitSeq, mCoreListener, mProxyList, mDefaultMetadata,
          DeviceList, DefaultSinkDev, DefaultSourceDev, syncCount, doneQueue,
          lockOwner, appPc, appOp, session, mDevice, result, cancelled, uhj>>

\* The variables of the PipeWire backend.
backendVars == <<evt, mInitDone, mInitSeq, mCoreListener, mProxyList,
                 mDefaultMetadata, DeviceList, DefaultSinkDev, DefaultSourceDev,
                 syncCount, doneQueue, lockOwner, appPc, appOp, session, mDevice,
                 result, cancelled>>

managerVars == <<evt, mInitDone, mInitSeq, mCoreListener, mProxyList,
                 mDefaultMetadata, syncCount, doneQueue, cancelled>>
registryVars == <<DeviceList, DefaultSinkDev, DefaultSourceDev>>
appVars == <<lockOwner, appPc, appOp, session, mDevice, result>>
sessionVars == <<session, mDevice, result>>

NoOwner == "none"
Watcher == "PWEventThread"
App == "app"

(***************************************************************************)
(* The device registry (DeviceNode, DeviceList).                           *)
(***************************************************************************)
\* A default-constructed DeviceNode with its id set.
NewDeviceNode(id) ==
    [mName |-> EmptyStr, mDevName |-> EmptyStr, mId |-> id, mCapture |-> FALSE,
     mIsHeadphones |-> FALSE, mSampleRate |-> 0,
     mChannels |-> InvalidChannelConfig]

\* AddDeviceNode not looking for an existing entry.
AddDeviceNode_Appends(list, id) == Append(list, NewDeviceNode(id))

\* AddDeviceNode: the list with an entry for id (the existing one is kept).
AddDeviceNode(list, id) ==
    IF FindIf(list, LAMBDA n : n.mId = id) # End(list) THEN list
    ELSE Append(list, NewDeviceNode(id))

\* FindDeviceNode: the index of the entry for id, End(list) for nullptr.
FindDeviceNode(list, id) == FindIf(list, LAMBDA n : n.mId = id)

RemoveDevice_KeepsEntry(list, id) == list

RemoveDevice(list, id) == RemoveIf(list, LAMBDA n : n.mId = id)

HasEntry(id) == \E i \in 1..Len(DeviceList) : DeviceList[i].mId = id
HasProxy(id) == id \in mProxyList

(***************************************************************************)
(* Initial state: gEventHandler and the sessions as constructed.           *)
(***************************************************************************)
NullHandles ==
    [mLoop |-> FALSE, mContext |-> FALSE, mCore |-> FALSE, mRegistry |-> FALSE,
     started |-> FALSE, initCalled |-> FALSE]

\* A PipeWirePlayback or PipeWireCapture as constructed ("none": no backend
\* object exists).
\* mStream is the pw_stream's state, "null" without a stream; mRateMatch and
\* mRing are <<>> for a null pointer, loops counts the loops the session's
\* pw_thread_loop_new calls returned.  active, avail and calls belong to the
\* native stream: whether it was set active, the buffers it can hand out,
\* and the calls the last run of its process callback made.  ioArea tells
\* what the last SPA_IO_RateMatch change of the stream's I/O areas brought:
\* "unset" before any, "usable" for an area of the size of a
\* spa_io_rate_match or more, "unusable" for a smaller or a null area.
\* locked says that the calling thread is within the scope of a
\* MainloopLockGuard or a locked MainloopUniqueLock of the session's loop
\* (mLoop.wait() gives the lock up only for the time of the wait).
NewSession(type) ==
    [type |-> type, mTargetId |-> PwIdAny, mLoop |-> "null", mStream |-> "null",
     mRateMatch |-> <<>>, mNumChannels |-> 0, mTimeBase |-> 0, mRing |-> <<>>,
     active |-> FALSE, avail |-> 0, calls |-> <<>>, loops |-> 0,
     ioArea |-> "unset", locked |-> FALSE]

\* The DeviceBase the backend belongs to, with the engine's settings.
NewDevice ==
    [DeviceName |-> EmptyStr, Frequency |-> 48000, UpdateSize |-> 1024,
     BufferSize |-> 2048, FmtChans |-> "DevFmtStereo", FmtType |-> "DevFmtFloat",
     Flags |-> {}]

NoOp == [kind |-> "none", name |-> NullStr]

\* The uhjencoder program is not running.
NoUhj == [pc |-> "none"]
NoResult ==
    [op |-> "none", name |-> NullStr, status |-> "none", names |-> <<>>,
     clock |-> <<>>, calls |-> <<>>]

Init ==
    /\ evt = NullHandles
    /\ mInitDone = FALSE
    /\ mInitSeq = 0
    /\ mCoreListener = FALSE
    /\ mProxyList = {}
    /\ mDefaultMetadata = NullProxy
    /\ DeviceList = <<>>
    /\ DefaultSinkDev = EmptyStr
    /\ DefaultSourceDev = EmptyStr
    /\ syncCount = 0
    /\ doneQueue = <<>>
    /\ lockOwner = NoOwner
    /\ appPc = "idle"
    /\ appOp = NoOp
    /\ session = NewSession("none")
    /\ mDevice = NewDevice
    /\ result = NoResult
    /\ cancelled = FALSE
    /\ uhj = NoUhj

(***************************************************************************)
(* The loop lock (pw_thread_loop_lock).  The loop thread holds it while it *)
(* dispatches a callback; a callback is one atomic step taken with the     *)
(* lock free, an application thread holds it between its steps.            *)
(***************************************************************************)
CanLock_NoExclusion == TRUE

CanLock == lockOwner = NoOwner

\* The event thread is running and may dispatch a callback now.
Dispatching == evt.started /\ CanLock

(***************************************************************************)
(* EventManager::init                                                      *)
(***************************************************************************)
InitSteps == <<"loop", "context", "connect", "registry", "start">>

\* init() with the first failing step given ("none": every step succeeds).
\* The listeners are added and the first sync is issued before the loop is
\* started.
EventManagerInit(failAt) ==
    /\ ~evt.initCalled
    /\ LET ok(step) == \A i \in 1..Len(InitSteps) :
                           InitSteps[i] = failAt =>
                               \E j \in 1..(i-1) : InitSteps[j] = step
           synced == ok("registry")
       IN /\ evt' = [mLoop |-> ok("loop"), mContext |-> ok("context"),
                     mCore |-> ok("connect"), mRegistry |-> ok("registry"),
                     started |-> (failAt = "none"), initCalled |-> TRUE]
          /\ mCoreListener' = synced
          /\ mInitSeq' = IF synced THEN syncCount + 1 ELSE mInitSeq
          /\ syncCount' = IF synced THEN syncCount + 1 ELSE syncCount
          /\ doneQueue' = IF synced
                          THEN Append(doneQueue, [id |-> PW_ID_CORE,
                                                  seq |-> syncCount + 1])
                          ELSE doneQueue
    /\ UNCHANGED <<mInitDone, mProxyList, mDefaultMetadata, cancelled>>
    /\ UNCHANGED registryVars
    /\ UNCHANGED appVars
    /\ UNCHANGED uhj

(***************************************************************************)
(* EventManager::syncInit, as the new values of                            *)
(* <<mInitSeq, syncCount, doneQueue>>.                                     *)
(***************************************************************************)
syncInit_Always ==
    <<syncCount + 1, syncCount + 1,
      Append(doneQueue, [id |-> PW_ID_CORE, seq |-> syncCount + 1])>>

syncInit ==
    IF ~mInitDone
    THEN <<syncCount + 1, syncCount + 1,
           Append(doneQueue, [id |-> PW_ID_CORE, seq |-> syncCount + 1])>>
    ELSE <<mInitSeq, syncCount, doneQueue>>

NullProp == "<null>"
InterfaceNode == "PipeWire:Interface:Node"
InterfaceMetadata == "PipeWire:Interface:Metadata"

(***************************************************************************)
(* EventManager::addCallback(id, permissions, type, version, props).       *)
(* media_class and data_class are the looked-up properties (NullProp when  *)
(* absent), bound says whether pw_registry_bind returned a proxy.          *)
(***************************************************************************)
addCallback(id, type, media_class, data_class, bound) ==
    LET isGood == \/ StrCaseEq(media_class, AudioSinkClass)
                  \/ StrCaseEq(media_class, AudioSourceClass)
        bindNode == /\ type = InterfaceNode
                    /\ media_class # NullProp
                    /\ isGood
                    /\ bound
        bindMeta == /\ type = InterfaceMetadata
                    /\ data_class # NullProp
                    /\ data_class = "default"
                    /\ mDefaultMetadata = NullProxy
                    /\ bound
        sync == IF bindNode \/ bindMeta THEN syncInit
                ELSE <<mInitSeq, syncCount, doneQueue>>
    IN  /\ mProxyList' = IF bindNode THEN mProxyList \cup {id} ELSE mProxyList
        /\ mDefaultMetadata' = IF bindMeta THEN id ELSE mDefaultMetadata
        /\ mInitSeq' = sync[1]
        /\ syncCount' = sync[2]
        /\ doneQueue' = sync[3]
        /\ UNCHANGED <<evt, mInitDone, mCoreListener, cancelled>>
        /\ UNCHANGED registryVars

removeCallback_KeepsProxy(id) ==
    /\ DeviceList' = RemoveDevice(DeviceList, id)
    /\ mDefaultMetadata' = IF mDefaultMetadata # NullProxy /\ mDefaultMetadata = id
                           THEN NullProxy ELSE mDefaultMetadata
    /\ cancelled' = (cancelled \/ (~mInitDone /\ HasProxy(id)))
    /\ UNCHANGED <<evt, mInitDone, mInitSeq, mCoreListener, syncCount, doneQueue>>
    /\ UNCHANGED <<mProxyList, DefaultSinkDev, DefaultSourceDev>>

removeCallback_ClearsDefaults(id) ==
    /\ DeviceList' = RemoveDevice(DeviceList, id)
    /\ mProxyList' = {p \in mProxyList : p # id}
    /\ mDefaultMetadata' = IF mDefaultMetadata # NullProxy /\ mDefaultMetadata = id
                           THEN NullProxy ELSE mDefaultMetadata
    /\ cancelled' = (cancelled \/ (~mInitDone /\ HasProxy(id)))
    /\ DefaultSinkDev' = IF mDefaultMetadata = id THEN EmptyStr ELSE DefaultSinkDev
    /\ DefaultSourceDev' = IF mDefaultMetadata = id THEN EmptyStr
                           ELSE DefaultSourceDev
    /\ UNCHANGED <<evt, mInitDone, mInitSeq, mCoreListener, syncCount, doneQueue>>

(***************************************************************************)
(* EventManager::removeCallback(id)                                        *)
(***************************************************************************)
removeCallback(id) ==
    /\ DeviceList' = RemoveDevice(DeviceList, id)
    /\ mProxyList' = {p \in mProxyList : p # id}
    /\ mDefaultMetadata' = IF mDefaultMetadata # NullProxy /\ mDefaultMetadata = id
                           THEN NullProxy ELSE mDefaultMetadata
    /\ cancelled' = (cancelled \/ (~mInitDone /\ HasProxy(id)))
    /\ UNCHANGED <<evt, mInitDone, mInitSeq, mCoreListener, syncCount, doneQueue>>
    /\ UNCHANGED <<DefaultSinkDev, DefaultSourceDev>>

(***************************************************************************)
(* EventManager::coreCallback(id, seq): the core's 'done' event.  Setting  *)
(* mInitDone removes the listener and signals the loop, which wakes a      *)
(* thread blocked in waitForInit.                                          *)
(***************************************************************************)
coreCallback_AnySeq(id, seq) ==
    IF id = PW_ID_CORE
    THEN /\ mCoreListener' = FALSE
         /\ mInitDone' = TRUE
         /\ appPc' = IF appPc = "blocked" THEN "woken" ELSE appPc
    ELSE UNCHANGED <<mCoreListener, mInitDone, appPc>>

coreCallback(id, seq) ==
    IF id = PW_ID_CORE /\ seq = mInitSeq
    THEN /\ mCoreListener' = FALSE
         /\ mInitDone' = TRUE
         /\ appPc' = IF appPc = "blocked" THEN "woken" ELSE appPc
    ELSE UNCHANGED <<mCoreListener, mInitDone, appPc>>

(***************************************************************************)
(* NodeProxy::infoCallback(info) of the proxy bound to id.  props holds    *)
(* the looked-up properties of info->props.                                *)
(***************************************************************************)
\* The display name without the numbered fallback.
NodeDisplayName_Unnumbered(id, props) ==
    LET n1 == props.description
        n2 == IF n1 = NullStr \/ n1 = EmptyStr THEN props.nick ELSE n1
    IN  IF n2 = NullStr \/ n2 = EmptyStr THEN props.name ELSE n2

NodeDisplayName(id, props) ==
    LET n1 == props.description
        n2 == IF n1 = NullStr \/ n1 = EmptyStr THEN props.nick ELSE n1
        n3 == IF n2 = NullStr \/ n2 = EmptyStr THEN props.name ELSE n2
    IN  IF n3 # NullStr /\ n3 # EmptyStr THEN n3
        ELSE NodeNumberPrefix \o to_string(id)

infoCallback(id, props) ==
    LET isSink == StrCaseEq(props.media_class, AudioSinkClass)
        isSource == StrCaseEq(props.media_class, AudioSourceClass)
        isHeadphones == /\ props.form_factor # NullProp
                        /\ \/ StrCaseEq(props.form_factor, "headphones")
                           \/ StrCaseEq(props.form_factor, "headset")
        added == AddDeviceNode(DeviceList, id)
        i == FindDeviceNode(added, id)
    IN  /\ DeviceList' =
              IF ~props.change_props \/ props.media_class = NullProp
              THEN DeviceList
              ELSE IF ~isSink /\ ~isSource
              THEN RemoveDevice(DeviceList, id)
              ELSE [added EXCEPT ![i] =
                       [@ EXCEPT !.mName = NodeDisplayName(id, props),
                                 !.mDevName = IF props.name # NullStr
                                              THEN props.name ELSE EmptyStr,
                                 !.mCapture = ~isSink,
                                 !.mIsHeadphones = isHeadphones]]
        /\ UNCHANGED <<DefaultSinkDev, DefaultSourceDev>>
        /\ UNCHANGED managerVars

(***************************************************************************)
(* NodeProxy::paramCallback(seq, id, index, next, param) of the proxy      *)
(* bound to id.  param holds what spa_pod_find_prop finds for the rate,    *)
(* the position and the channels property, each <<>> for a null result or  *)
(* one value.                                                              *)
(***************************************************************************)
clampi(val, min, max) == IF val < min THEN min ELSE IF val > max THEN max ELSE val

MonoMap == <<"MONO">>
StereoMap == <<"FL", "FR">>
QuadMap == <<"FL", "FR", "RL", "RR">>
X51Map == <<"FL", "FR", "FC", "LFE", "SL", "SR">>
X51RearMap == <<"FL", "FR", "FC", "LFE", "RL", "RR">>
X61Map == <<"FL", "FR", "FC", "LFE", "RC", "SL", "SR">>
X71Map == <<"FL", "FR", "FC", "LFE", "RL", "RR", "SL", "SR">>

\* Every channel of map1 exists in map0.
MatchChannelMap(map0, map1) ==
    \A i \in 1..Len(map1) : \E j \in 1..Len(map0) : map0[j] = map1[i]

\* parse_srate storing a single value and a range's default as reported.
parse_srate_Unclamped(node, value) ==
    LET nvals == Len(value.vals)
        inRange == {i \in 1..nvals : /\ value.vals[i] >= MIN_OUTPUT_RATE
                                     /\ value.vals[i] <= MAX_OUTPUT_RATE}
    IN  IF value.podType # "Int" THEN node
        ELSE IF value.choice = "Range"
        THEN (IF nvals # 3 THEN node ELSE [node EXCEPT !.mSampleRate = value.vals[1]])
        ELSE IF value.choice = "Enum"
        THEN (IF nvals = 0 \/ inRange = {} THEN node
              ELSE [node EXCEPT !.mSampleRate =
                        value.vals[CHOOSE i \in inRange : \A j \in inRange : i <= j]])
        ELSE IF value.choice = "None"
        THEN (IF nvals # 1 THEN node ELSE [node EXCEPT !.mSampleRate = value.vals[1]])
        ELSE node

\* parse_srate taking the default of an enumeration like a single value.
parse_srate_ClampsDefault(node, value) ==
    LET nvals == Len(value.vals)
        clamped == clampi(value.vals[1], MIN_OUTPUT_RATE, MAX_OUTPUT_RATE)
    IN  IF value.podType # "Int" THEN node
        ELSE IF value.choice = "Range"
        THEN (IF nvals # 3 THEN node ELSE [node EXCEPT !.mSampleRate = clamped])
        ELSE IF value.choice = "Enum"
        THEN (IF nvals = 0 THEN node ELSE [node EXCEPT !.mSampleRate = clamped])
        ELSE IF value.choice = "None"
        THEN (IF nvals # 1 THEN node ELSE [node EXCEPT !.mSampleRate = clamped])
        ELSE node

\* value is [podType, choice, vals]: the values' type, the choice type and
\* the values that spa_pod_get_values yields.
parse_srate(node, value) ==
    LET nvals == Len(value.vals)
        inRange == {i \in 1..nvals : /\ value.vals[i] >= MIN_OUTPUT_RATE
                                     /\ value.vals[i] <= MAX_OUTPUT_RATE}
        clamped == clampi(value.vals[1], MIN_OUTPUT_RATE, MAX_OUTPUT_RATE)
    IN  IF value.podType # "Int" THEN node
        ELSE IF value.choice = "Range"
        THEN (IF nvals # 3 THEN node ELSE [node EXCEPT !.mSampleRate = clamped])
        ELSE IF value.choice = "Enum"
        THEN (IF nvals = 0 \/ inRange = {} THEN node
              ELSE [node EXCEPT !.mSampleRate =
                        value.vals[CHOOSE i \in inRange : \A j \in inRange : i <= j]])
        ELSE IF value.choice = "None"
        THEN (IF nvals # 1 THEN node ELSE [node EXCEPT !.mSampleRate = clamped])
        ELSE node

\* chanmap is the array of ids get_param_array copied (empty: none).
parse_positions(node, chanmap) ==
    LET got == Len(chanmap)
    IN  IF got = 0 THEN node
        ELSE IF got >= 8 /\ MatchChannelMap(chanmap, X71Map)
        THEN [node EXCEPT !.mChannels = "DevFmtX71"]
        ELSE IF got >= 7 /\ MatchChannelMap(chanmap, X61Map)
        THEN [node EXCEPT !.mChannels = "DevFmtX61"]
        ELSE IF got >= 6 /\ MatchChannelMap(chanmap, X51Map)
        THEN [node EXCEPT !.mChannels = "DevFmtX51"]
        ELSE IF got >= 6 /\ MatchChannelMap(chanmap, X51RearMap)
        THEN [node EXCEPT !.mChannels = "DevFmtX51"]
        ELSE IF got >= 4 /\ MatchChannelMap(chanmap, QuadMap)
        THEN [node EXCEPT !.mChannels = "DevFmtQuad"]
        ELSE IF got >= 2 /\ MatchChannelMap(chanmap, StereoMap)
        THEN [node EXCEPT !.mChannels = "DevFmtStereo"]
        ELSE [node EXCEPT !.mChannels = "DevFmtMono"]

\* value is [isInt, chans]: whether the pod is an Int, and its value.
parse_channels(node, value) ==
    IF ~value.isInt THEN node
    ELSE IF value.chans >= 2 THEN [node EXCEPT !.mChannels = "DevFmtStereo"]
    ELSE IF value.chans >= 1 THEN [node EXCEPT !.mChannels = "DevFmtMono"]
    ELSE node

paramCallback(mId, id, param) ==
    LET i == FindDeviceNode(DeviceList, mId)
        n0 == DeviceList[i]
        n1 == IF param.rate # <<>> THEN parse_srate(n0, param.rate[1]) ELSE n0
        n2 == IF param.position # <<>> THEN parse_positions(n1, param.position[1])
              ELSE IF param.channels # <<>> THEN parse_channels(n1, param.channels[1])
              ELSE n1
    IN  /\ DeviceList' = IF id # "SPA_PARAM_EnumFormat" \/ i = End(DeviceList)
                         THEN DeviceList
                         ELSE [DeviceList EXCEPT ![i] = n2]
        /\ UNCHANGED <<DefaultSinkDev, DefaultSourceDev>>
        /\ UNCHANGED managerVars

(***************************************************************************)
(* MetadataProxy::propertyCallback(id, key, type, value).  value is the    *)
(* JSON text as [object |-> it opens an object, tokens |-> its tokens].    *)
(***************************************************************************)
propertyCallback_AnySubject(id, key, type, value) ==
    LET known == key = "default.audio.sink" \/ key = "default.audio.source"
        isCapture == key = "default.audio.source"
        new(cur) == IF ~known THEN cur
                    ELSE IF type = NullProp THEN EmptyStr
                    ELSE IF type # "Spa:String:JSON" THEN cur
                    ELSE IF ~value.object THEN cur
                    ELSE ParseDefaultName(value.tokens, cur)
    IN  /\ DefaultSinkDev' = IF isCapture THEN DefaultSinkDev
                             ELSE new(DefaultSinkDev)
        /\ DefaultSourceDev' = IF isCapture THEN new(DefaultSourceDev)
                               ELSE DefaultSourceDev
        /\ UNCHANGED DeviceList
        /\ UNCHANGED managerVars

propertyCallback(id, key, type, value) ==
    LET known == key = "default.audio.sink" \/ key = "default.audio.source"
        isCapture == key = "default.audio.source"
        new(cur) == IF id # PW_ID_CORE \/ ~known THEN cur
                    ELSE IF type = NullProp THEN EmptyStr
                    ELSE IF type # "Spa:String:JSON" THEN cur
                    ELSE IF ~value.object THEN cur
                    ELSE ParseDefaultName(value.tokens, cur)
    IN  /\ DefaultSinkDev' = IF isCapture THEN DefaultSinkDev
                             ELSE new(DefaultSinkDev)
        /\ DefaultSourceDev' = IF isCapture THEN new(DefaultSourceDev)
                               ELSE DefaultSourceDev
        /\ UNCHANGED DeviceList
        /\ UNCHANGED managerVars

(***************************************************************************)
(* Registry lookups of the application-side operations.  Each yields       *)
(* [found, targetid, devname] from the registry as it is now.              *)
(***************************************************************************)
NotFound == [found |-> FALSE, targetid |-> PwIdAny, devname |-> EmptyStr]

Found(n, devname) == [found |-> TRUE, targetid |-> n.mId, devname |-> devname]

PlaybackResolve_FirstPlayback(name) ==
    LET match == IF name = NullStr
                 THEN FindIf(DeviceList, LAMBDA n : ~n.mCapture)
                 ELSE FindIf(DeviceList, LAMBDA n : ~n.mCapture /\ n.mName = name)
    IN  IF match = End(DeviceList) THEN NotFound
        ELSE Found(DeviceList[match], DeviceList[match].mName)

\* PipeWirePlayback::open, the registry section (name = NullStr: no name).
PlaybackResolve(name) ==
    IF name = NullStr
    THEN LET byDefault == IF DefaultSinkDev # EmptyStr
                          THEN FindIf(DeviceList,
                                      LAMBDA n : n.mDevName = DefaultSinkDev)
                          ELSE End(DeviceList)
             match == IF byDefault = End(DeviceList)
                      THEN FindIf(DeviceList, LAMBDA n : ~n.mCapture)
                      ELSE byDefault
         IN  IF match = End(DeviceList) THEN NotFound
             ELSE Found(DeviceList[match], DeviceList[match].mName)
    ELSE LET match == FindIf(DeviceList,
                             LAMBDA n : ~n.mCapture /\ n.mName = name)
         IN  IF match = End(DeviceList) THEN NotFound
             ELSE Found(DeviceList[match], DeviceList[match].mName)

\* PipeWireCapture::open, the registry section.
CaptureResolve(name) ==
    IF name = NullStr
    THEN LET byDefault == IF DefaultSourceDev # EmptyStr
                          THEN FindIf(DeviceList,
                                      LAMBDA n : n.mDevName = DefaultSourceDev)
                          ELSE End(DeviceList)
             byCapture == IF byDefault = End(DeviceList)
                          THEN FindIf(DeviceList, LAMBDA n : n.mCapture)
                          ELSE byDefault
             match == IF byCapture = End(DeviceList)
                      THEN FindIf(DeviceList, LAMBDA n : ~n.mCapture)
                      ELSE byCapture
         IN  IF match = End(DeviceList) THEN NotFound
             ELSE Found(DeviceList[match],
                        IF DeviceList[match].mCapture
                        THEN DeviceList[match].mName
                        ELSE MonitorPrefix \o DeviceList[match].mName)
    ELSE LET byName == FindIf(DeviceList,
                              LAMBDA n : n.mCapture /\ n.mName = name)
             match == IF byName = End(DeviceList)
                         /\ HasPrefix(name, MonitorPrefix)
                      THEN FindIf(DeviceList,
                                  LAMBDA n : /\ ~n.mCapture
                                             /\ n.mName = DropPrefix(name,
                                                            MonitorPrefixLen))
                      ELSE byName
         IN  IF match = End(DeviceList) THEN NotFound
             ELSE Found(DeviceList[match], name)

\* OpenLoop without the test for a loop that exists.
OpenLoop_AlwaysNew(mLoop, created, started) ==
    IF ~created THEN <<"null", "DeviceError", 0>>
    ELSE IF ~started THEN <<"created", "DeviceError", 1>>
    ELSE <<"running", "ok", 1>>

\* The "if(!mLoop)" block of open: <<mLoop afterwards, error, loops that
\* pw_thread_loop_new returned>>.  created says whether pw_thread_loop_new
\* returns a loop, started whether the loop starts.
OpenLoop(mLoop, created, started) ==
    IF mLoop # "null" THEN <<mLoop, "ok", 0>>
    ELSE IF ~created THEN <<"null", "DeviceError", 0>>
    ELSE IF ~started THEN <<"created", "DeviceError", 1>>
    ELSE <<"running", "ok", 1>>

\* One loop of probe over the sorted list from position i on: the names
\* (with prefix) of the entries of the given direction other than defmatch.
RECURSIVE NamesFrom(_, _, _, _, _)
NamesFrom(list, i, defmatch, isCapture, prefix) ==
    IF i > Len(list) THEN <<>>
    ELSE (IF i # defmatch /\ list[i].mCapture = isCapture
          THEN <<prefix \o list[i].mName>> ELSE <<>>)
         \o NamesFrom(list, i + 1, defmatch, isCapture, prefix)

\* The names probe(type) appends to outnames, from the sorted list.
ProbeNames(type, sorted) ==
    LET defmatch == IF type = "Playback"
                    THEN FindIf(sorted, LAMBDA n : n.mDevName = DefaultSinkDev)
                    ELSE FindIf(sorted, LAMBDA n : n.mDevName = DefaultSourceDev)
        first == IF defmatch = End(sorted) THEN <<>>
                 ELSE IF type = "Capture" /\ ~sorted[defmatch].mCapture
                 THEN <<MonitorPrefix \o sorted[defmatch].mName>>
                 ELSE <<sorted[defmatch].mName>>
    IN  IF type = "Playback"
        THEN first \o NamesFrom(sorted, 1, defmatch, FALSE, EmptyStr)
        ELSE first \o NamesFrom(sorted, 1, defmatch, TRUE, EmptyStr)
                   \o NamesFrom(sorted, 1, defmatch, FALSE, MonitorPrefix)

ResetDevice_IgnoresRequests(dev, targetid) ==
    LET cleared == [dev EXCEPT !.Flags = @ \ {"DirectEar"}]
        match == FindIf(DeviceList, LAMBDA n : n.mId = targetid)
        n == DeviceList[match]
    IN  IF targetid = PwIdAny \/ match = End(DeviceList) THEN cleared
        ELSE [cleared EXCEPT
                 !.Frequency = IF n.mSampleRate > 0 THEN n.mSampleRate ELSE @,
                 !.FmtChans = IF n.mChannels # InvalidChannelConfig
                              THEN n.mChannels ELSE @,
                 !.Flags = IF n.mChannels = "DevFmtStereo" /\ n.mIsHeadphones
                           THEN @ \cup {"DirectEar"} ELSE @]

\* PipeWirePlayback::reset, the registry section: the engine's device after
\* it, from the entry the session targets (if there is one).
ResetDevice(dev, targetid) ==
    LET cleared == [dev EXCEPT !.Flags = @ \ {"DirectEar"}]
        match == FindIf(DeviceList, LAMBDA n : n.mId = targetid)
        n == DeviceList[match]
        setRate == "FrequencyRequest" \notin dev.Flags /\ n.mSampleRate > 0
        \* static_cast<uint>(clampd(UpdateSize*scale + 0.5, 64.0, 8192.0))
        product == dev.UpdateSize * n.mSampleRate
        scaled == (product \div dev.Frequency)
                      + (IF 2 * (product % dev.Frequency) >= dev.Frequency
                         THEN 1 ELSE 0)
        update == IF scaled < 64 THEN 64
                  ELSE IF scaled > 8192 THEN 8192 ELSE scaled
        setChans == /\ "ChannelsRequest" \notin dev.Flags
                    /\ n.mChannels # InvalidChannelConfig
        ear == n.mChannels = "DevFmtStereo" /\ n.mIsHeadphones
    IN  IF targetid = PwIdAny \/ match = End(DeviceList) THEN cleared
        ELSE [cleared EXCEPT
                 !.Frequency = IF setRate THEN n.mSampleRate ELSE @,
                 !.UpdateSize = IF setRate THEN update ELSE @,
                 !.BufferSize = IF setRate THEN update * 2 ELSE @,
                 !.FmtChans = IF setChans THEN n.mChannels ELSE @,
                 !.Flags = IF ear THEN @ \cup {"DirectEar"} ELSE @]

(***************************************************************************)
(* The native stream of a session: what reset and capture open do with it. *)
(***************************************************************************)
\* DeviceBase::channelsFromFmt and the size of a sample of DeviceBase::FmtType.
ChannelsFromDevFmt(chans) ==
    CASE chans = "DevFmtMono" -> 1 [] chans = "DevFmtStereo" -> 2
      [] chans = "DevFmtQuad" -> 4 [] chans = "DevFmtX51" -> 6
      [] chans = "DevFmtX61" -> 7 [] chans = "DevFmtX71" -> 8

BytesFromDevFmt(type) ==
    CASE type \in {"DevFmtByte", "DevFmtUByte"} -> 1
      [] type \in {"DevFmtShort", "DevFmtUShort"} -> 2
      [] type \in {"DevFmtInt", "DevFmtUInt", "DevFmtFloat"} -> 4

minu(a, b) == IF a < b THEN a ELSE b
maxu(a, b) == IF a > b THEN a ELSE b

\* A session whose mStream was assigned a new stream (or null).
WithStream(s, mStream) ==
    [s EXCEPT !.mStream = mStream, !.active = FALSE, !.avail = 0, !.calls = <<>>]

\* The native calls of reset and of capture open from the format parameters
\* to pw_stream_connect, the first of which to fail is failAt, on session
\* s: <<the session afterwards, error>>.
ConnectStream(s, failAt) ==
    IF failAt \in {"params", "props"} THEN <<s, "DeviceError">>
    ELSE IF failAt = "stream" THEN <<WithStream(s, "null"), "NoDevice">>
    ELSE IF failAt = "connect" THEN <<WithStream(s, "unconnected"), "DeviceError">>
    ELSE <<WithStream(s, "connecting"), "ok">>

\* The session's loop is locked by a guard in whose scope the call goes on.
Locked(s) == [s EXCEPT !.locked = TRUE]

\* A guard that stays locked when its scope is left.
Unlocked_Never(s) == s

\* ~MainloopLockGuard, ~MainloopUniqueLock and plock.unlock(): the scope of
\* the guard is left, by a return or by an exception, or the lock is given
\* up in it.
Unlocked(s) == [s EXCEPT !.locked = FALSE]

\* One test of the loop that waits for the stream to become paused: "ok"
\* leaves the loop, "DeviceError" throws, "wait" calls mLoop.wait().
WaitPaused_UntilChanged(state) ==
    IF state = "connecting" THEN "wait" ELSE "ok"

WaitPaused(state) ==
    IF state = "paused" THEN "ok"
    ELSE IF state = "error" THEN "DeviceError"
    ELSE "wait"

(***************************************************************************)
(* The application thread.  A call that reads the registry takes the       *)
(* watcher's lock (EventWatcherLockGuard), for open and probe waits for    *)
(* the barrier, and then stands at "read" holding the lock; the next step  *)
(* does its reading and the rest of the call and releases the lock.  The   *)
(* call then stands at "done" with what it returned or threw, until the    *)
(* caller takes it.                                                        *)
(***************************************************************************)
\* PipeWireBackendFactory::createBackend(device, type)
CreateBackend(type) ==
    /\ evt.started
    /\ appPc = "idle"
    /\ session.type = "none"
    /\ session' = NewSession(type)
    /\ mDevice' = NewDevice
    /\ UNCHANGED <<lockOwner, appPc, appOp, result>>
    /\ UNCHANGED managerVars
    /\ UNCHANGED registryVars
    /\ UNCHANGED uhj

\* SessionRelease without the destructor's test.
SessionRelease_Untested(s) ==
    <<<<"lock">>, <<"stream_destroy">>, <<"unlock">>>>
        \o (IF s.mLoop # "null" THEN <<<<"loop_destroy">>>> ELSE <<>>)

\* The calls ~PipeWirePlayback / ~PipeWireCapture make: the body releases
\* the stream under the loop's lock if there are a loop and a stream, then
\* the members are destroyed (mStream's deleter runs for a stream that is
\* still there, ~ThreadMainloop destroys a loop that exists).
SessionRelease(s) ==
    (IF s.mLoop # "null" /\ s.mStream # "null"
     THEN <<<<"lock">>, <<"stream_destroy">>, <<"unlock">>>>
     ELSE IF s.mStream # "null" THEN <<<<"stream_destroy">>>>
     ELSE <<>>)
        \o (IF s.mLoop # "null" THEN <<<<"loop_destroy">>>> ELSE <<>>)

\* ~PipeWirePlayback / ~PipeWireCapture: the backend object is deleted.
DestroyBackend ==
    /\ appPc = "idle"
    /\ session.type # "none"
    /\ session' = NewSession("none")
    /\ mDevice' = NewDevice
    /\ result' = [NoResult EXCEPT !.op = "destroy", !.status = "ok",
                                  !.calls = SessionRelease(session)]
    /\ appPc' = "done"
    /\ UNCHANGED <<lockOwner, appOp>>
    /\ UNCHANGED managerVars
    /\ UNCHANGED registryVars
    /\ UNCHANGED uhj

\* EventManagerRelease without the destructor's tests.
EventManagerRelease_Untested(e, proxies, metadata) ==
    <<<<"loop_stop">>, <<"node_destroy", proxies>>, <<"metadata_destroy">>,
      <<"registry_destroy">>, <<"core_disconnect">>, <<"context_destroy">>>>
        \o (IF e.mLoop THEN <<<<"loop_destroy">>>> ELSE <<>>)

\* The calls ~EventManager makes on the handles e, the node proxies and the
\* metadata proxy, and ~ThreadMainloop after it.
EventManagerRelease(e, proxies, metadata) ==
    (IF e.mLoop THEN <<<<"loop_stop">>>> ELSE <<>>)
        \o <<<<"node_destroy", proxies>>>>
        \o (IF metadata # NullProxy THEN <<<<"metadata_destroy">>>> ELSE <<>>)
        \o (IF e.mRegistry THEN <<<<"registry_destroy">>>> ELSE <<>>)
        \o (IF e.mCore THEN <<<<"core_disconnect">>>> ELSE <<>>)
        \o (IF e.mContext THEN <<<<"context_destroy">>>> ELSE <<>>)
        \o (IF e.mLoop THEN <<<<"loop_destroy">>>> ELSE <<>>)

\* ~EventManager: gEventHandler is destroyed when the process ends, after
\* init was tried and with no backend object left; nothing runs after it.
EventManagerDestroy ==
    /\ evt.initCalled
    /\ appPc = "idle"
    /\ session.type = "none"
    /\ CanLock
    /\ result' = [NoResult EXCEPT !.op = "exit", !.status = "ok",
                                  !.calls = EventManagerRelease(evt, mProxyList,
                                                                mDefaultMetadata)]
    /\ appPc' = "exited"
    /\ evt' = [NullHandles EXCEPT !.initCalled = TRUE]
    /\ mProxyList' = {}
    /\ mDefaultMetadata' = NullProxy
    /\ UNCHANGED <<mInitDone, mInitSeq, mCoreListener, syncCount, doneQueue,
                   cancelled>>
    /\ UNCHANGED <<lockOwner, appOp, session, mDevice>>
    /\ UNCHANGED registryVars
    /\ UNCHANGED uhj

\* EventManager::waitForInit, called with the lock held: go on to read, or
\* release the lock and sleep on the loop's condition variable.
waitForInit_NoWait ==
    /\ appPc' = "read"
    /\ lockOwner' = App

waitForInit ==
    IF mInitDone
    THEN /\ appPc' = "read"
         /\ lockOwner' = App
    ELSE /\ appPc' = "blocked"
         /\ lockOwner' = NoOwner

\* open(name) of the backend object or probe(type) is called: lock,
\* waitForInit.
AppCall(op) ==
    /\ evt.started
    /\ appPc = "idle"
    /\ \/ op.kind = "pbOpen" /\ session.type = "Playback"
       \/ op.kind = "capOpen" /\ session.type = "Capture"
       \/ op.kind \in {"probePlayback", "probeCapture"}
    /\ CanLock
    /\ appOp' = op
    /\ waitForInit
    /\ UNCHANGED sessionVars
    /\ UNCHANGED managerVars
    /\ UNCHANGED registryVars
    /\ UNCHANGED uhj

\* pw_thread_loop_wait returns after a signal: the lock is taken again and
\* the loop of waitForInit tests mInitDone again.
AppWake ==
    /\ appPc = "woken"
    /\ CanLock
    /\ waitForInit
    /\ UNCHANGED <<appOp, session, mDevice, result>>
    /\ UNCHANGED managerVars
    /\ UNCHANGED registryVars
    /\ UNCHANGED uhj

\* The call ends (the lock guard's scope has ended on every path).
Finish(status, names) ==
    /\ result' = [op |-> appOp.kind, name |-> appOp.name, status |-> status,
                  names |-> names, clock |-> <<>>, calls |-> <<>>]
    /\ appPc' = "done"
    /\ appOp' = NoOp
    /\ lockOwner' = NoOwner

\* A call that has not waited ends by throwing the exception.
Throw(op, status) ==
    /\ result' = [op |-> op.kind, name |-> op.name, status |-> status,
                  names |-> <<>>, clock |-> <<>>, calls |-> <<>>]
    /\ appPc' = "done"
    /\ appOp' = NoOp
    /\ lockOwner' = NoOwner

\* The caller has the return value or the exception.
AppReturn ==
    /\ appPc = "done"
    /\ appPc' = "idle"
    /\ result' = NoResult
    /\ UNCHANGED <<lockOwner, appOp, session, mDevice>>
    /\ UNCHANGED managerVars
    /\ UNCHANGED registryVars
    /\ UNCHANGED uhj

Opened_LoopFirst(r, created, started, fallback) ==
    LET loop == OpenLoop(session.mLoop, created, started)
    IN  IF loop[2] # "ok"
        THEN <<[session EXCEPT !.mLoop = loop[1], !.loops = @ + loop[3]],
               mDevice, loop[2]>>
        ELSE IF ~r.found
        THEN <<[session EXCEPT !.mLoop = loop[1], !.loops = @ + loop[3]],
               mDevice, "NoDevice">>
        ELSE <<[session EXCEPT !.mTargetId = r.targetid, !.mLoop = loop[1],
                               !.loops = @ + loop[3]],
               [mDevice EXCEPT !.DeviceName = IF r.devname # EmptyStr
                                              THEN r.devname ELSE fallback],
               "ok">>

\* open after the registry section found r: <<session, device, outcome>>.
Opened(r, created, started, fallback) ==
    LET loop == OpenLoop(session.mLoop, created, started)
    IN  IF ~r.found THEN <<session, mDevice, "NoDevice">>
        ELSE IF loop[2] # "ok"
        THEN <<[session EXCEPT !.mLoop = loop[1], !.loops = @ + loop[3]],
               mDevice, loop[2]>>
        ELSE <<[session EXCEPT !.mTargetId = r.targetid, !.mLoop = loop[1],
                               !.loops = @ + loop[3]],
               [mDevice EXCEPT !.DeviceName = IF r.devname # EmptyStr
                                              THEN r.devname ELSE fallback],
               "ok">>

\* PipeWirePlayback::open(name), from the first registry read on.
PlaybackOpen(created, started) ==
    /\ appPc = "read"
    /\ appOp.kind = "pbOpen"
    /\ LET o == Opened(PlaybackResolve(appOp.name), created, started, pwireDevice)
       IN  /\ session' = o[1]
           /\ mDevice' = o[2]
           /\ Finish(o[3], <<>>)
    /\ UNCHANGED managerVars
    /\ UNCHANGED registryVars
    /\ UNCHANGED uhj

\* PipeWireCapture::open(name), from the first registry read to the first
\* mLoop.wait() for the connected stream.
CaptureOpen(created, started, failAt) ==
    /\ appPc = "read"
    /\ appOp.kind = "capOpen"
    /\ LET o == Opened(CaptureResolve(appOp.name), created, started, pwireInput)
           c == ConnectStream(o[1], failAt)
       IN  /\ mDevice' = o[2]
           /\ IF o[3] # "ok"
              THEN /\ session' = o[1]
                   /\ Finish(o[3], <<>>)
              ELSE /\ session' = IF c[2] = "ok" THEN Locked(c[1])
                                 ELSE IF failAt \in {"stream", "connect"}
                                 THEN Unlocked(Locked(c[1]))
                                 ELSE c[1]
                   /\ IF c[2] = "ok"
                      THEN /\ appPc' = "connect"
                           /\ lockOwner' = NoOwner
                           /\ UNCHANGED <<appOp, result>>
                      ELSE Finish(c[2], <<>>)
    /\ UNCHANGED managerVars
    /\ UNCHANGED registryVars
    /\ UNCHANGED uhj

\* PipeWireBackendFactory::probe(type), from the sort on.
Probe ==
    /\ appPc = "read"
    /\ appOp.kind \in {"probePlayback", "probeCapture"}
    /\ DeviceList' = SortById(DeviceList)
    /\ Finish("ok", ProbeNames(IF appOp.kind = "probePlayback" THEN "Playback"
                               ELSE "Capture", SortById(DeviceList)))
    /\ UNCHANGED <<DefaultSinkDev, DefaultSourceDev>>
    /\ UNCHANGED <<session, mDevice>>
    /\ UNCHANGED managerVars
    /\ UNCHANGED uhj

\* The engine sets the device up for the reset that follows: the caller's
\* requests (the flags FrequencyRequest and ChannelsRequest with the values
\* they pin) or the defaults.
DeviceRequest(req) ==
    /\ appPc = "idle"
    /\ session.type = "Playback"
    /\ session.mTargetId # PwIdAny
    /\ mDevice' = [mDevice EXCEPT
                      !.Flags = (@ \cap {"DirectEar"}) \cup req.Flags,
                      !.Frequency = req.Frequency,
                      !.FmtChans = req.FmtChans,
                      !.UpdateSize = NewDevice.UpdateSize,
                      !.BufferSize = NewDevice.BufferSize]
    /\ UNCHANGED <<lockOwner, appPc, appOp, session, result>>
    /\ UNCHANGED managerVars
    /\ UNCHANGED registryVars
    /\ UNCHANGED uhj

\* The engine sets a capture device up before it opens the backend.
CaptureDevice(req) ==
    /\ appPc = "idle"
    /\ session.type = "Capture"
    /\ session.mTargetId = PwIdAny
    /\ mDevice' = [mDevice EXCEPT !.Frequency = req.Frequency,
                                  !.BufferSize = req.BufferSize,
                                  !.FmtChans = req.FmtChans,
                                  !.FmtType = req.FmtType]
    /\ UNCHANGED <<lockOwner, appPc, appOp, session, result>>
    /\ UNCHANGED managerVars
    /\ UNCHANGED registryVars
    /\ UNCHANGED uhj

\* PipeWirePlayback::reset is called: the stream of an earlier reset is
\* destroyed, DirectEar is cleared, and with a target the watcher's lock is
\* taken (there is no waitForInit here).  clock is GetDeviceClockTime.
ResetCall(clock) ==
    /\ evt.started
    /\ appPc = "idle"
    /\ session.type = "Playback"
    /\ session.mTargetId # PwIdAny
    /\ CanLock
    /\ lockOwner' = App
    /\ appPc' = "read"
    /\ appOp' = [kind |-> "pbReset", name |-> NullStr]
    /\ session' = [WithStream(session, "null") EXCEPT !.mRateMatch = <<>>,
                                                       !.mTimeBase = clock,
                                                       !.ioArea = "unset"]
    /\ mDevice' = [mDevice EXCEPT !.Flags = @ \ {"DirectEar"}]
    /\ UNCHANGED result
    /\ UNCHANGED managerVars
    /\ UNCHANGED registryVars
    /\ UNCHANGED uhj

\* PipeWirePlayback::reset, from the registry section under the lock to the
\* first mLoop.wait() for the connected stream.
ResetRead(failAt) ==
    /\ appPc = "read"
    /\ appOp.kind = "pbReset"
    /\ LET c == ConnectStream(session, failAt)
       IN  /\ mDevice' = [ResetDevice(mDevice, session.mTargetId)
                             EXCEPT !.FmtType = "DevFmtFloat"]
           /\ session' = IF c[2] = "ok" THEN Locked(c[1])
                         ELSE IF failAt \in {"stream", "connect"}
                         THEN Unlocked(Locked(c[1]))
                         ELSE c[1]
           /\ IF c[2] = "ok"
              THEN /\ appPc' = "connect"
                   /\ lockOwner' = NoOwner
                   /\ UNCHANGED <<appOp, result>>
              ELSE Finish(c[2], <<>>)
    /\ UNCHANGED managerVars
    /\ UNCHANGED registryVars
    /\ UNCHANGED uhj

\* PipeWirePlayback::reset, woken in its wait for the stream: the loop's
\* test, and on leaving the loop the rest of reset.
ResetWait ==
    /\ appPc = "connect"
    /\ appOp.kind = "pbReset"
    /\ WaitPaused(session.mStream) # "wait"
    /\ IF WaitPaused(session.mStream) = "ok"
       THEN /\ mDevice' = [mDevice EXCEPT !.BufferSize = mDevice.UpdateSize * 2]
            /\ session' = [Unlocked(session) EXCEPT
                              !.mNumChannels = ChannelsFromDevFmt(mDevice.FmtChans)]
            /\ Finish("ok", <<>>)
       ELSE /\ Finish(WaitPaused(session.mStream), <<>>)
            /\ session' = Unlocked(session)
            /\ UNCHANGED mDevice
    /\ UNCHANGED managerVars
    /\ UNCHANGED registryVars
    /\ UNCHANGED uhj

\* PipeWireCapture::open, woken in its wait for the stream: the loop's test,
\* and on leaving the loop the ring buffer of at least 100ms.
CaptureWait ==
    /\ appPc = "connect"
    /\ appOp.kind = "capOpen"
    /\ WaitPaused(session.mStream) # "wait"
    /\ IF WaitPaused(session.mStream) = "ok"
       THEN /\ session' = [Unlocked(session) EXCEPT !.mRing =
                   <<maxu(mDevice.Frequency \div 10, mDevice.BufferSize),
                     ChannelsFromDevFmt(mDevice.FmtChans)
                         * BytesFromDevFmt(mDevice.FmtType)>>]
            /\ Finish("ok", <<>>)
       ELSE /\ Finish(WaitPaused(session.mStream), <<>>)
            /\ session' = Unlocked(session)
    /\ UNCHANGED mDevice
    /\ UNCHANGED managerVars
    /\ UNCHANGED registryVars
    /\ UNCHANGED uhj

\* What start does with the device once the stream is no longer paused.
StartSizes_AnyState(dev, state, mRateMatch) ==
    IF mRateMatch # <<>> /\ mRateMatch[1] # 0
    THEN [dev EXCEPT !.UpdateSize = mRateMatch[1], !.BufferSize = mRateMatch[1] * 2]
    ELSE dev

StartSizes(dev, state, mRateMatch) ==
    IF state = "streaming" /\ mRateMatch # <<>> /\ mRateMatch[1] # 0
    THEN [dev EXCEPT !.UpdateSize = mRateMatch[1], !.BufferSize = mRateMatch[1] * 2]
    ELSE dev

\* PipeWirePlayback::start and PipeWireCapture::start are called: res is
\* what pw_stream_set_active returns.
StartCall(res) ==
    /\ appPc = "idle"
    /\ session.type \in {"Playback", "Capture"}
    /\ session.mStream \in {"paused", "error"}
    /\ LET op == [kind |-> IF session.type = "Playback" THEN "pbStart" ELSE "capStart",
                   name |-> NullStr]
       IN  IF res # 0
           THEN /\ Throw(op, "DeviceError")
                /\ session' = Unlocked(Locked(session))
           ELSE /\ appOp' = op
                /\ session' = [Locked(session) EXCEPT !.active = TRUE]
                /\ appPc' = "starting"
                /\ UNCHANGED <<lockOwner, result>>
    /\ UNCHANGED mDevice
    /\ UNCHANGED managerVars
    /\ UNCHANGED registryVars
    /\ UNCHANGED uhj

\* start, woken in its wait for the stream to leave the paused state.
StartWait ==
    /\ appPc = "starting"
    /\ session.mStream # "paused"
    /\ IF session.mStream = "error"
       THEN /\ Finish("DeviceError", <<>>)
            /\ UNCHANGED mDevice
       ELSE /\ mDevice' = IF appOp.kind = "pbStart"
                          THEN StartSizes(mDevice, session.mStream, session.mRateMatch)
                          ELSE mDevice
            /\ Finish("ok", <<>>)
    /\ session' = Unlocked(session)
    /\ UNCHANGED managerVars
    /\ UNCHANGED registryVars
    /\ UNCHANGED uhj

\* PipeWirePlayback::stop and PipeWireCapture::stop are called on a started
\* session: res is what pw_stream_set_active returns.
StopCall(res) ==
    /\ appPc = "idle"
    /\ session.type \in {"Playback", "Capture"}
    /\ session.active
    /\ LET op == [kind |-> IF session.type = "Playback" THEN "pbStop" ELSE "capStop",
                   name |-> NullStr]
       IN  IF res # 0
           THEN /\ Throw(op, "DeviceError")
                /\ session' = Unlocked(Locked(session))
           ELSE /\ appOp' = op
                /\ session' = [Locked(session) EXCEPT !.active = FALSE]
                /\ appPc' = "stopping"
                /\ UNCHANGED <<lockOwner, result>>
    /\ UNCHANGED mDevice
    /\ UNCHANGED managerVars
    /\ UNCHANGED registryVars
    /\ UNCHANGED uhj

\* stop, woken in its wait for the stream to leave the streaming state.
StopWait ==
    /\ appPc = "stopping"
    /\ session.mStream # "streaming"
    /\ Finish("ok", <<>>)
    /\ session' = Unlocked(session)
    /\ UNCHANGED mDevice
    /\ UNCHANGED managerVars
    /\ UNCHANGED registryVars
    /\ UNCHANGED uhj

(***************************************************************************)
(* PipeWirePlayback::getClockLatency.  Durations are nanoseconds; seconds  *)
(* become nanoseconds by the factor NanosPerSecond.                        *)
(***************************************************************************)
NanosPerSecond == 1000000000

\* The quotient of two integers in C++, rounded towards zero.
TruncDiv(a, b) == IF a >= 0 THEN a \div b ELSE -((-a) \div b)

\* pw_time ptime{}.
NoTime == [now |-> 0, rate |-> [num |-> 0, denom |-> 0], ticks |-> 0, delay |-> 0]

\* What ptime holds after the first block: what pw_stream_get_time reported
\* (time; after a failed call, whatever it left there), zeros without a
\* stream.
StreamGetTime(s, time) == IF s.mStream # "null" THEN time ELSE NoTime

\* StreamTime with the time base left out of the stream's tick time.
StreamTime_NoTimeBase(mTimeBase, dev, ptime, mixtime, monoclock) ==
    IF ptime.rate.denom < 1
    THEN [now |-> monoclock, curtic |-> mixtime,
          delay |-> (dev.BufferSize * NanosPerSecond) \div dev.Frequency]
    ELSE [now |-> ptime.now,
          curtic |-> ((ptime.ticks \div ptime.rate.denom) * ptime.rate.num)
                         * NanosPerSecond
                     + (((ptime.ticks % ptime.rate.denom) * ptime.rate.num)
                            * NanosPerSecond) \div ptime.rate.denom,
          delay |-> TruncDiv((ptime.delay * ptime.rate.num) * NanosPerSecond,
                             ptime.rate.denom)]

\* StreamTime with the dummy values keeping the time of ptime.
StreamTime_KeepsNow(mTimeBase, dev, ptime, mixtime, monoclock) ==
    IF ptime.rate.denom < 1
    THEN [now |-> ptime.now, curtic |-> mixtime,
          delay |-> (dev.BufferSize * NanosPerSecond) \div dev.Frequency]
    ELSE [now |-> ptime.now,
          curtic |-> mTimeBase
                     + ((ptime.ticks \div ptime.rate.denom) * ptime.rate.num)
                           * NanosPerSecond
                     + (((ptime.ticks % ptime.rate.denom) * ptime.rate.num)
                            * NanosPerSecond) \div ptime.rate.denom,
          delay |-> TruncDiv((ptime.delay * ptime.rate.num) * NanosPerSecond,
                             ptime.rate.denom)]

\* The conversion to nanoseconds: ptime.now, curtic and delay.  Without a
\* stream rate the dummy values are used; with one, the ticks are scaled in
\* two parts (whole seconds, and the remainder) on top of mTimeBase.
StreamTime(mTimeBase, dev, ptime, mixtime, monoclock) ==
    IF ptime.rate.denom < 1
    THEN [now |-> monoclock, curtic |-> mixtime,
          delay |-> (dev.BufferSize * NanosPerSecond) \div dev.Frequency]
    ELSE [now |-> ptime.now,
          curtic |-> mTimeBase
                     + ((ptime.ticks \div ptime.rate.denom) * ptime.rate.num)
                           * NanosPerSecond
                     + (((ptime.ticks % ptime.rate.denom) * ptime.rate.num)
                            * NanosPerSecond) \div ptime.rate.denom,
          delay |-> TruncDiv((ptime.delay * ptime.rate.num) * NanosPerSecond,
                             ptime.rate.denom)]

\* getClockLatency() of session s: time is what the stream reports, mixtime
\* and monoclock the mixer time and CLOCK_MONOTONIC sampled together.
getClockLatency(s, dev, time, mixtime, monoclock) ==
    LET t == StreamTime(s.mTimeBase, dev, StreamGetTime(s, time), mixtime,
                        monoclock)
        ahead == IF mixtime > t.curtic THEN mixtime - t.curtic ELSE 0
        delay == (t.delay + ahead) - (monoclock - t.now)
    IN  [ClockTime |-> mixtime, Latency |-> IF delay > 0 THEN delay ELSE 0]

\* The application calls getClockLatency; the call's ptime and samples are
\* kept with what it returned.
ClockLatency(time, mixtime, monoclock) ==
    /\ appPc = "idle"
    /\ session.type = "Playback"
    /\ result' = [op |-> "pbClock", name |-> NullStr, status |-> "ok",
                  names |-> <<>>,
                  clock |-> <<[ptime |-> StreamGetTime(session, time),
                               mixtime |-> mixtime, monoclock |-> monoclock,
                               ret |-> getClockLatency(session, mDevice, time,
                                                       mixtime, monoclock)]>>,
                  calls |-> <<>>]
    /\ appPc' = "done"
    /\ UNCHANGED <<lockOwner, appOp, session, mDevice>>
    /\ UNCHANGED managerVars
    /\ UNCHANGED registryVars
    /\ UNCHANGED uhj

(***************************************************************************)
(* The session's own loop: the events of its stream.  The loop thread      *)
(* dispatches them while the application thread is not inside a step, that *)
(* is, while it does not hold the session loop's lock.                     *)
(***************************************************************************)
\* The states the server can move the stream to.
StreamMoves(state, active) ==
    CASE state = "connecting" -> {"paused", "error", "unconnected"}
      [] state = "paused" -> IF active THEN {"streaming", "error", "unconnected"}
                             ELSE {"error", "unconnected"}
      [] state = "streaming" -> IF active THEN {"error", "unconnected"}
                                ELSE {"paused", "error", "unconnected"}
      [] OTHER -> {}

\* stateChangedCallback(old, state, error): mLoop.signal(false), which lets
\* a thread in mLoop.wait() test the stream's state again.
StreamStateChanged(state) ==
    /\ session.mLoop = "running"
    /\ state \in StreamMoves(session.mStream, session.active)
    /\ session' = [session EXCEPT !.mStream = state]
    /\ UNCHANGED <<lockOwner, appPc, appOp, mDevice, result>>
    /\ UNCHANGED managerVars
    /\ UNCHANGED registryVars
    /\ UNCHANGED uhj

\* PipeWirePlayback::ioChangedCallback(id, area, size): area is the size
\* field of the spa_io_rate_match there, fits is size >= sizeof of it.
ioChangedCallback(id, area, fits) ==
    /\ session.type = "Playback"
    /\ session.mLoop = "running"
    /\ session.mStream \notin {"null", "unconnected"}
    /\ session' = IF id = "SPA_IO_RateMatch" /\ fits
                  THEN [session EXCEPT !.mRateMatch = <<area>>,
                                       !.ioArea = "usable"]
                  ELSE IF id = "SPA_IO_RateMatch"
                  THEN [session EXCEPT !.ioArea = "unusable"]
                  ELSE session
    /\ UNCHANGED <<lockOwner, appPc, appOp, mDevice, result>>
    /\ UNCHANGED managerVars
    /\ UNCHANGED registryVars
    /\ UNCHANGED uhj

\* The server writes the size of the spa_io_rate_match the stream was given.
SrvRateMatch(size) ==
    /\ session.mRateMatch # <<>>
    /\ session.ioArea = "usable"
    /\ session.mStream = "streaming"
    /\ session' = [session EXCEPT !.mRateMatch = <<size>>]
    /\ UNCHANGED <<lockOwner, appPc, appOp, mDevice, result>>
    /\ UNCHANGED managerVars
    /\ UNCHANGED registryVars
    /\ UNCHANGED uhj

\* The memory of an area the stream no longer has is used for something
\* else: what a pointer kept to it reads as a size is any value.
SrvAreaReused(size) ==
    /\ session.mRateMatch # <<>>
    /\ session.ioArea = "unusable"
    /\ session' = [session EXCEPT !.mRateMatch = <<size>>]
    /\ UNCHANGED <<lockOwner, appPc, appOp, mDevice, result>>
    /\ UNCHANGED managerVars
    /\ UNCHANGED registryVars
    /\ UNCHANGED uhj

\* The server hands a buffer back to the stream.
SrvBuffer ==
    /\ session.mStream \in {"paused", "streaming"}
    /\ session.avail < MaxBuffers
    /\ session' = [session EXCEPT !.avail = @ + 1]
    /\ UNCHANGED <<lockOwner, appPc, appOp, mDevice, result>>
    /\ UNCHANGED managerVars
    /\ UNCHANGED registryVars
    /\ UNCHANGED uhj

SizeofFloat == 4

\* The render length of outputCallback: length limited by the capacity of
\* each of the first chancount datas.
RECURSIVE LimitLength(_, _, _)
LimitLength(length, datas, chancount) ==
    IF chancount = 0 THEN length
    ELSE minu(LimitLength(length, datas, chancount - 1),
              datas[chancount] \div SizeofFloat)

RenderLength_NoLimit(mRateMatch, UpdateSize, datas, chancount) ==
    IF mRateMatch # <<>> THEN mRateMatch[1] ELSE UpdateSize

RenderLength(mRateMatch, UpdateSize, datas, chancount) ==
    LimitLength(IF mRateMatch # <<>> THEN mRateMatch[1] ELSE UpdateSize,
                datas, chancount)

\* What a data callback does with the buffer buf that
\* pw_stream_dequeue_buffer would hand out: work is the calls it makes
\* between a successful dequeue and the queueing.
Process_DropsBuffer(s, buf, work) ==
    IF s.avail = 0 THEN [s EXCEPT !.calls = <<<<"dequeue", FALSE>>>>]
    ELSE [s EXCEPT !.avail = @ - 1,
                   !.calls = <<<<"dequeue", TRUE, buf>>>> \o work]

Process(s, buf, work) ==
    IF s.avail = 0 THEN [s EXCEPT !.calls = <<<<"dequeue", FALSE>>>>]
    ELSE [s EXCEPT !.avail = @ - 1,
                   !.calls = <<<<"dequeue", TRUE, buf>>>> \o work \o <<<<"queue">>>>]

\* PipeWirePlayback::outputCallback with the stream's next buffer having
\* the given maxsize in each of its datas.
outputCallback(datas) ==
    /\ session.type = "Playback"
    /\ session.mStream = "streaming"
    /\ LET chancount == minu(session.mNumChannels, Len(datas))
           length == RenderLength(session.mRateMatch, mDevice.UpdateSize, datas,
                                  chancount)
       IN  session' = Process(session, datas,
                         <<<<"renderSamples", chancount, length>>,
                           <<"chunk", 0, SizeofFloat, length * SizeofFloat>>>>)
    /\ UNCHANGED <<lockOwner, appPc, appOp, mDevice, result>>
    /\ UNCHANGED managerVars
    /\ UNCHANGED registryVars
    /\ UNCHANGED uhj

\* The part of the buffer inputCallback hands to the ring buffer: <<offset,
\* size>> in bytes.
ClampChunk_SizeUnclamped(chunk, maxsize) ==
    <<minu(chunk.offset, maxsize), minu(chunk.size, maxsize)>>

ClampChunk(chunk, maxsize) ==
    LET offset == minu(chunk.offset, maxsize)
    IN  <<offset, minu(chunk.size, maxsize - offset)>>

\* PipeWireCapture::inputCallback with the stream's next buffer being
\* bufdata: [chunk |-> [offset, size], maxsize].
inputCallback(bufdata) ==
    /\ session.type = "Capture"
    /\ session.mStream = "streaming"
    /\ LET c == ClampChunk(bufdata.chunk, bufdata.maxsize)
       IN  session' = Process(session, bufdata,
                         <<<<"write", c[1], c[2] \div session.mRing[2]>>>>)
    /\ UNCHANGED <<lockOwner, appPc, appOp, mDevice, result>>
    /\ UNCHANGED managerVars
    /\ UNCHANGED registryVars
    /\ UNCHANGED uhj

(***************************************************************************)
(* The server: the events it sends to the watcher's connection.  The event *)
(* thread dispatches one callback at a time, holding the loop's lock.      *)
(***************************************************************************)
\* registry 'global' event for an object the watcher does not track.
SrvGlobal(id, in) ==
    /\ Dispatching
    /\ ~HasProxy(id)
    /\ mDefaultMetadata # id
    /\ mInitDone \/ syncCount < MaxSyncs
    /\ addCallback(id, in.type, in.media_class, in.data_class, in.bound)
    /\ UNCHANGED appVars
    /\ UNCHANGED uhj

\* registry 'global_remove' event.
SrvGlobalRemove(id) ==
    /\ Dispatching
    /\ removeCallback(id)
    /\ UNCHANGED appVars
    /\ UNCHANGED uhj

\* The core's 'done' event answering the oldest outstanding sync.
SrvDone ==
    /\ Dispatching
    /\ doneQueue # <<>>
    /\ doneQueue' = Tail(doneQueue)
    /\ IF mCoreListener
       THEN coreCallback(Head(doneQueue).id, Head(doneQueue).seq)
       ELSE UNCHANGED <<mCoreListener, mInitDone, appPc>>
    /\ UNCHANGED <<evt, mInitSeq, mProxyList, mDefaultMetadata, syncCount,
                   cancelled>>
    /\ UNCHANGED registryVars
    /\ UNCHANGED <<lockOwner, appOp, session, mDevice, result>>
    /\ UNCHANGED uhj

\* A 'done' event for another object than the core.
SrvOtherDone(id, seq) ==
    /\ Dispatching
    /\ mCoreListener
    /\ coreCallback(id, seq)
    /\ UNCHANGED <<evt, mInitSeq, mProxyList, mDefaultMetadata, syncCount,
                   doneQueue, cancelled>>
    /\ UNCHANGED registryVars
    /\ UNCHANGED <<lockOwner, appOp, session, mDevice, result>>
    /\ UNCHANGED uhj

\* node 'info' event on a bound NodeProxy.
SrvNodeInfo(id, props) ==
    /\ Dispatching
    /\ HasProxy(id)
    /\ infoCallback(id, props)
    /\ UNCHANGED appVars
    /\ UNCHANGED uhj

\* node 'param' event on a bound NodeProxy.
SrvParam(mId, id, param) ==
    /\ Dispatching
    /\ HasProxy(mId)
    /\ paramCallback(mId, id, param)
    /\ UNCHANGED appVars
    /\ UNCHANGED uhj

\* metadata 'property' event on the bound MetadataProxy.
SrvProperty(in) ==
    /\ Dispatching
    /\ mDefaultMetadata # NullProxy
    /\ propertyCallback(in.id, in.key, in.type, in.value)
    /\ UNCHANGED appVars
    /\ UNCHANGED uhj

(***************************************************************************)
(* Inputs: what the server sends and what the application asks for.        *)
(***************************************************************************)
InitFailures == {"none", "loop", "context", "connect", "registry", "start"}

AddInputs ==
    [type : {InterfaceNode}, data_class : {NullProp},
     media_class : {"Audio/Sink", "audio/SOURCE", "Video/Source", NullProp},
     bound : BOOLEAN]
    \cup
    [type : {InterfaceMetadata}, media_class : {NullProp},
     data_class : {"default", "settings", NullProp}, bound : BOOLEAN]
    \cup
    [type : {"PipeWire:Interface:Port"}, media_class : {NullProp},
     data_class : {NullProp}, bound : {TRUE}]

NameA == <<"A">>
DevA == <<"a">>
DevB == <<"b">>

NodeProps(change_props, media_class, name, description) ==
    [change_props |-> change_props, media_class |-> media_class,
     form_factor |-> NullProp, name |-> name, description |-> description,
     nick |-> NullStr]

\* Node infos of the barrier specification: one sink and one source.
InfoInputs ==
    {NodeProps(TRUE, "Audio/Sink", DevA, NameA),
     NodeProps(TRUE, "Audio/Source", DevA, NameA),
     NodeProps(TRUE, "Video/Source", DevA, NameA),
     NodeProps(TRUE, NullProp, DevA, NameA),
     NodeProps(FALSE, "Audio/Sink", DevA, NameA)}

\* Node infos of the resolution specification: sinks and sources that share
\* display names and device names, a sink without a node name and a source
\* named like a monitor.
ResolveInfoInputs ==
    {NodeProps(TRUE, "Audio/Sink", DevA, NameA),
     NodeProps(TRUE, "AUDIO/SINK", NullStr, NameA),
     NodeProps(TRUE, "Audio/Source", DevB, NameA),
     NodeProps(TRUE, "audio/SOURCE", DevA, MonitorPrefix \o NameA),
     NodeProps(TRUE, "Video/Source", DevA, NameA)}

JsonName(n) == [object |-> TRUE, tokens |-> <<Quote(NameKey), Quote(n)>>]

\* Metadata properties of the barrier specification.
PropertyInputs ==
    [id : {PW_ID_CORE, 1},
     key : {"default.audio.sink", "default.configured.audio.sink"},
     type : {NullProp, "Spa:String:JSON", "Spa:Int"},
     value : {JsonName(DevA)}]

\* Globals and metadata properties of the resolution specification.
ResolveAddInputs ==
    {[type |-> InterfaceNode, data_class |-> NullProp,
      media_class |-> "Audio/Sink", bound |-> TRUE],
     [type |-> InterfaceMetadata, media_class |-> NullProp,
      data_class |-> "default", bound |-> TRUE]}

ResolvePropertyInputs ==
    [id : {PW_ID_CORE}, key : {"default.audio.sink", "default.audio.source"},
     type : {NullProp, "Spa:String:JSON"}, value : {JsonName(DevA)}]

\* open without a name, as the barrier specification calls it.
OpenCalls == [kind : {"pbOpen", "capOpen"}, name : {NullStr}]

\* open as the resolution specification calls it: without a name, by a name
\* sinks and sources have, and by a monitor's name.
OpenNames == {NullStr, NameA, MonitorPrefix \o NameA}

ResolveOpenCalls == [kind : {"pbOpen", "capOpen"}, name : OpenNames]

\* probe touches no backend object; the specifications call it while none
\* exists.
ProbeCalls == [kind : {"probePlayback", "probeCapture"}, name : {NullStr}]

BackendTypes == {"Playback", "Capture"}

(***************************************************************************)
(* Spec: the watcher from init on, with the application calling in at any  *)
(* time, before and after the barrier.                                     *)
(***************************************************************************)
Next ==
    \/ \E f \in InitFailures : EventManagerInit(f)
    \/ \E id \in ObjIds, in \in AddInputs : SrvGlobal(id, in)
    \/ \E id \in ObjIds : SrvGlobalRemove(id)
    \/ SrvDone
    \/ \E id \in ObjIds, seq \in 1..MaxSyncs : SrvOtherDone(id, seq)
    \/ \E id \in ObjIds, props \in InfoInputs : SrvNodeInfo(id, props)
    \/ \E in \in PropertyInputs : SrvProperty(in)
    \/ \E type \in BackendTypes : CreateBackend(type)
    \/ DestroyBackend
    \/ \E op \in OpenCalls : AppCall(op)
    \/ \E op \in ProbeCalls : session.type = "none" /\ AppCall(op)
    \/ AppWake
    \/ AppReturn
    \/ PlaybackOpen(TRUE, TRUE)
    \/ CaptureOpen(TRUE, TRUE, "stream")
    \/ Probe
    \/ ResetCall(0)
    \/ ResetRead("stream")

Spec == Init /\ [][Next]_vars

(***************************************************************************)
(* SpecResolve: the registry changing after the barrier has fired (the     *)
(* watcher was started and the first sync answered), with the application  *)
(* opening by every kind of name and probing.  The session's loop starts   *)
(* whenever it could be created.                                           *)
(***************************************************************************)
ResolveNext ==
    \/ EventManagerInit("none")
    \/ SrvDone
    \/ \E id \in ObjIds, seq \in 1..MaxSyncs : SrvOtherDone(id, seq)
    \/ \E id \in ObjIds, in \in ResolveAddInputs : mInitDone /\ SrvGlobal(id, in)
    \/ \E id \in ObjIds : mInitDone /\ SrvGlobalRemove(id)
    \/ \E id \in ObjIds, props \in ResolveInfoInputs : SrvNodeInfo(id, props)
    \/ \E in \in ResolvePropertyInputs : SrvProperty(in)
    \/ \E type \in BackendTypes : CreateBackend(type)
    \/ DestroyBackend
    \/ \E op \in ResolveOpenCalls : AppCall(op)
    \/ \E op \in ProbeCalls : session.type = "none" /\ AppCall(op)
    \/ AppWake
    \/ AppReturn
    \/ \E created \in BOOLEAN : PlaybackOpen(created, TRUE)
    \/ \E created \in BOOLEAN : CaptureOpen(created, TRUE, "stream")
    \/ Probe

SpecResolve == Init /\ [][ResolveNext]_vars

(***************************************************************************)
(* SpecLive: Spec with the scheduling the liveness properties rest on.  The *)
(* server answers every pw_core_sync it received (the event thread is in   *)
(* pw_thread_loop's loop and dispatches what arrives whenever the lock is  *)
(* free), and a thread woken by pw_thread_loop_signal runs again.          *)
(***************************************************************************)
SpecLive == Spec /\ WF_vars(SrvDone) /\ WF_vars(AppWake)

(***************************************************************************)
(* SpecReset: a playback session is opened on a sink whose format the      *)
(* server reports and changes, the engine sets the device up with and      *)
(* without pinned values, and reset reads the registry.  The native stream *)
(* either cannot be created or becomes paused.                             *)
(***************************************************************************)
ResetInfoInputs ==
    {[NodeProps(TRUE, AudioSinkClass, DevA, NameA) EXCEPT !.form_factor = f] :
        f \in {NullProp, "Headphones"}}

IntPod(choice, vals) == [podType |-> "Int", choice |-> choice, vals |-> vals]

ResetParamInputs ==
    {[rate |-> <<>>, position |-> <<StereoMap>>, channels |-> <<>>],
     [rate |-> <<IntPod("None", <<44100>>)>>, position |-> <<>>, channels |-> <<>>],
     [rate |-> <<IntPod("Enum", <<4000, 44100>>)>>, position |-> <<X51Map>>,
      channels |-> <<>>],
     [rate |-> <<IntPod("Range", <<300000, 8000, 300000>>)>>, position |-> <<>>,
      channels |-> <<[isInt |-> TRUE, chans |-> 1]>>],
     [rate |-> <<[podType |-> "Long", choice |-> "None", vals |-> <<48000>>]>>,
      position |-> << <<>> >>, channels |-> <<[isInt |-> TRUE, chans |-> 2]>>]}

DeviceRequests ==
    {[Flags |-> {}, Frequency |-> 48000, FmtChans |-> "DevFmtStereo"],
     [Flags |-> {"FrequencyRequest"}, Frequency |-> 44100,
      FmtChans |-> "DevFmtStereo"],
     [Flags |-> {"ChannelsRequest"}, Frequency |-> 48000, FmtChans |-> "DevFmtX51"],
     [Flags |-> {"ChannelsRequest"}, Frequency |-> 48000,
      FmtChans |-> "DevFmtStereo"],
     [Flags |-> {"FrequencyRequest", "ChannelsRequest"}, Frequency |-> 44100,
      FmtChans |-> "DevFmtMono"]}

NodeAdd ==
    [type |-> InterfaceNode, media_class |-> AudioSinkClass, data_class |-> NullProp,
     bound |-> TRUE]

PlaybackDefaultOpen == [kind |-> "pbOpen", name |-> NullStr]
CaptureDefaultOpen == [kind |-> "capOpen", name |-> NullStr]

ResetNext ==
    \/ EventManagerInit("none")
    \/ SrvDone
    \/ mInitDone /\ SrvGlobal(1, NodeAdd)
    \/ mInitDone /\ SrvGlobalRemove(1)
    \/ \E props \in ResetInfoInputs : SrvNodeInfo(1, props)
    \/ \E param \in ResetParamInputs : SrvParam(1, "SPA_PARAM_EnumFormat", param)
    \/ SrvParam(1, "SPA_PARAM_Format",
                [rate |-> <<IntPod("None", <<96000>>)>>, position |-> <<>>,
                 channels |-> <<>>])
    \/ CreateBackend("Playback")
    \/ mInitDone /\ AppCall(PlaybackDefaultOpen)
    \/ AppReturn
    \/ PlaybackOpen(TRUE, TRUE)
    \/ \E req \in DeviceRequests : DeviceRequest(req)
    \/ ResetCall(0)
    \/ \E failAt \in {"stream", "none"} : ResetRead(failAt)
    \/ ResetWait
    \/ StreamStateChanged("paused")

SpecReset == Init /\ [][ResetNext]_vars

(***************************************************************************)
(* SpecStream: sessions opened on the one sink of the registry, with every *)
(* outcome of the native stream calls: reset and capture open wait for the *)
(* stream, start waits for it to run, and the data callbacks are called    *)
(* with and without a buffer to dequeue.                                   *)
(***************************************************************************)
StreamFailures == {"none", "params", "props", "stream", "connect"}

StreamInfo == NodeProps(TRUE, AudioSinkClass, DevA, NameA)

HintSizes == {0, 512, 2048}

\* maxsize of each of a playback buffer's datas.
OutputBuffers == {<<4096, 4096>>, <<4096, 256>>, <<65536, 65536>>, <<4096>>}

\* A capture buffer's data: the chunk the server filled in, and maxsize.
InputBuffers ==
    [chunk : [offset : {0, 8, 100}, size : {0, 20, 64, 200}], maxsize : {64}]

\* A capture device of 8 kHz mono 16-bit samples with a buffer of more than
\* 100ms.
CaptureRequest ==
    [Frequency |-> 8000, BufferSize |-> 2048, FmtChans |-> "DevFmtMono",
     FmtType |-> "DevFmtShort"]

StreamNext ==
    \/ EventManagerInit("none")
    \/ SrvDone
    \/ mInitDone /\ SrvGlobal(1, NodeAdd)
    \/ SrvNodeInfo(1, StreamInfo)
    \/ \E type \in BackendTypes : CreateBackend(type)
    \/ CaptureDevice(CaptureRequest)
    \/ mInitDone /\ AppCall(PlaybackDefaultOpen)
    \/ mInitDone /\ AppCall(CaptureDefaultOpen)
    \/ AppReturn
    \/ PlaybackOpen(TRUE, TRUE)
    \/ \E failAt \in StreamFailures : CaptureOpen(TRUE, TRUE, failAt)
    \/ ResetCall(0)
    \/ \E failAt \in StreamFailures : ResetRead(failAt)
    \/ ResetWait
    \/ CaptureWait
    \/ \E res \in {0, -1} : StartCall(res)
    \/ StartWait
    \/ \E state \in {"paused", "streaming", "error", "unconnected"} :
           StreamStateChanged(state)
    \/ \E area \in HintSizes : ioChangedCallback("SPA_IO_RateMatch", area, TRUE)
    \/ ioChangedCallback("SPA_IO_RateMatch", 512, FALSE)
    \/ ioChangedCallback("SPA_IO_Position", 512, TRUE)
    \/ \E size \in HintSizes : SrvRateMatch(size)
    \/ \E size \in HintSizes : SrvAreaReused(size)
    \/ SrvBuffer
    \/ \E datas \in OutputBuffers : outputCallback(datas)
    \/ \E bufdata \in InputBuffers : inputCallback(bufdata)

SpecStream == Init /\ [][StreamNext]_vars

(***************************************************************************)
(* SpecClock: getClockLatency on playback sessions with and without a      *)
(* stream, over time reports with and without a rate.  All durations stay  *)
(* below 2^31 nanoseconds.                                                 *)
(***************************************************************************)
\* GetDeviceClockTime at the last reset.
ClockBases == {0, 100000000}

\* What pw_stream_get_time can report: no rate yet (denom 0), or ticks at
\* num/denom seconds each; a delay in ticks.
ClockTimes ==
    {p \in [now : {0, 400}, rate : [num : {1, 2}, denom : {0, 1, 3}],
            ticks : {0, 1, 2}, delay : {-1, 0, 1}] :
        /\ p.ticks * p.rate.num <= 2
        /\ p.delay * p.rate.num \in -1..1}

MixTimes == {0, 5, 900000000}

MonoClocks == {0, 400, 700000000}

\* Playback sessions that were opened, before and after a reset, on devices
\* with an update size of one frame.
ClockInit ==
    /\ evt = NullHandles
    /\ mInitDone = FALSE
    /\ mInitSeq = 0
    /\ mCoreListener = FALSE
    /\ mProxyList = {}
    /\ mDefaultMetadata = NullProxy
    /\ DeviceList = <<>>
    /\ DefaultSinkDev = EmptyStr
    /\ DefaultSourceDev = EmptyStr
    /\ syncCount = 0
    /\ doneQueue = <<>>
    /\ lockOwner = NoOwner
    /\ appPc = "idle"
    /\ appOp = NoOp
    /\ session \in {[NewSession("Playback") EXCEPT !.mLoop = "running",
                                                   !.loops = 1,
                                                   !.mStream = state,
                                                   !.mTimeBase = base] :
                       state \in {"null", "streaming"}, base \in ClockBases}
    /\ mDevice \in {[NewDevice EXCEPT !.Frequency = rate, !.UpdateSize = 1,
                                      !.BufferSize = 2] :
                       rate \in {44100, 48000}}
    /\ result = NoResult
    /\ cancelled = FALSE
    /\ uhj = NoUhj

ClockNext ==
    \/ \E time \in ClockTimes, mixtime \in MixTimes, monoclock \in MonoClocks :
           ClockLatency(time, mixtime, monoclock)
    \/ AppReturn

SpecClock == ClockInit /\ [][ClockNext]_vars

(***************************************************************************)
(* The sampling loop of getClockLatency, step by step, next to the mixer   *)
(* thread.  The mixer counts in MixCount: it increments the count before   *)
(* it mixes, which makes it odd, advances the device clock (SamplesDone)   *)
(* and increments the count again.  waitForMix returns the count once it   *)
(* is even.  The locals of the call are fields of appOp, with the flag     *)
(* mixed that records a step of the mixer since waitForMix returned.       *)
(***************************************************************************)
\* The device with the mixer's counters.
MixDevice(dev) ==
    dev @@ [MixCount |-> 0, Mixing |-> FALSE, ClockBase |-> 0, SamplesDone |-> 0]

\* GetDeviceClockTime: ClockBase + seconds{SamplesDone} / Frequency, with
\* the multiplication by 10^9 split so that it stays within 32 bits.
GetDeviceClockTime(dev) ==
    dev.ClockBase
        + dev.SamplesDone * (NanosPerSecond \div dev.Frequency)
        + (dev.SamplesDone * (NanosPerSecond % dev.Frequency)) \div dev.Frequency

SampleOp(ptime) ==
    [kind |-> "pbClock", name |-> NullStr, ptime |-> ptime, refcount |-> 0,
     mixtime |-> 0, tspec |-> 0, mixed |-> FALSE]

\* The mixer took a step while the call is in its loop.
MixerStepped == [appOp EXCEPT !.mixed = TRUE]

\* The first IncrementRef(MixCount) of a mix.
MixBegin ==
    /\ mDevice.MixCount % 2 = 0
    /\ mDevice.MixCount < 2 * MaxMixes
    /\ mDevice' = [mDevice EXCEPT !.MixCount = @ + 1]
    /\ appOp' = MixerStepped
    /\ UNCHANGED <<lockOwner, appPc, session, result>>
    /\ UNCHANGED managerVars
    /\ UNCHANGED registryVars
    /\ UNCHANGED uhj

\* The mix advances the device clock by one update, whole seconds going to
\* ClockBase.
MixAdvance ==
    /\ mDevice.MixCount % 2 = 1
    /\ ~mDevice.Mixing
    /\ LET done == mDevice.SamplesDone + mDevice.UpdateSize
       IN  mDevice' = [mDevice EXCEPT
                          !.Mixing = TRUE,
                          !.ClockBase = @ + (done \div mDevice.Frequency)
                                                * NanosPerSecond,
                          !.SamplesDone = done % mDevice.Frequency]
    /\ appOp' = MixerStepped
    /\ UNCHANGED <<lockOwner, appPc, session, result>>
    /\ UNCHANGED managerVars
    /\ UNCHANGED registryVars
    /\ UNCHANGED uhj

\* The second IncrementRef(MixCount).
MixEnd ==
    /\ mDevice.MixCount % 2 = 1
    /\ mDevice.Mixing
    /\ mDevice' = [mDevice EXCEPT !.MixCount = @ + 1, !.Mixing = FALSE]
    /\ appOp' = MixerStepped
    /\ UNCHANGED <<lockOwner, appPc, session, result>>
    /\ UNCHANGED managerVars
    /\ UNCHANGED registryVars
    /\ UNCHANGED uhj

\* The call reads the stream's time and enters the loop.
SampleCall(time) ==
    /\ appPc = "idle"
    /\ session.type = "Playback"
    /\ appOp' = SampleOp(StreamGetTime(session, time))
    /\ appPc' = "waitForMix"
    /\ UNCHANGED <<lockOwner, session, mDevice, result>>
    /\ UNCHANGED managerVars
    /\ UNCHANGED registryVars
    /\ UNCHANGED uhj

\* refcount = mDevice->waitForMix(): spins while the count is odd.
SampleWaitForMix ==
    /\ appPc = "waitForMix"
    /\ mDevice.MixCount % 2 = 0
    /\ appOp' = [appOp EXCEPT !.refcount = mDevice.MixCount, !.mixed = FALSE]
    /\ appPc' = "mixtime"
    /\ UNCHANGED <<lockOwner, session, mDevice, result>>
    /\ UNCHANGED managerVars
    /\ UNCHANGED registryVars
    /\ UNCHANGED uhj

\* mixtime = GetDeviceClockTime(mDevice)
SampleMixTime ==
    /\ appPc = "mixtime"
    /\ appOp' = [appOp EXCEPT !.mixtime = GetDeviceClockTime(mDevice)]
    /\ appPc' = "clock_gettime"
    /\ UNCHANGED <<lockOwner, session, mDevice, result>>
    /\ UNCHANGED managerVars
    /\ UNCHANGED registryVars
    /\ UNCHANGED uhj

\* clock_gettime(CLOCK_MONOTONIC, &tspec)
SampleClock(now) ==
    /\ appPc = "clock_gettime"
    /\ appOp' = [appOp EXCEPT !.tspec = now]
    /\ appPc' = "while"
    /\ UNCHANGED <<lockOwner, session, mDevice, result>>
    /\ UNCHANGED managerVars
    /\ UNCHANGED registryVars
    /\ UNCHANGED uhj

\* The loop's condition taking any sample.
SampleRepeats_Never(refcount, count) == FALSE

\* while(refcount != ReadRef(mDevice->MixCount))
SampleRepeats(refcount, count) == refcount # count

\* The loop's condition is evaluated: the loop is repeated, or the call
\* goes on with the sample and returns.
SampleWhile ==
    /\ appPc = "while"
    /\ IF SampleRepeats(appOp.refcount, mDevice.MixCount)
       THEN /\ appPc' = "waitForMix"
            /\ UNCHANGED result
       ELSE /\ appPc' = "done"
            /\ result' = [op |-> "pbClock", name |-> NullStr, status |-> "ok",
                          names |-> <<>>,
                          clock |-> <<[ptime |-> appOp.ptime,
                                       mixtime |-> appOp.mixtime,
                                       monoclock |-> appOp.tspec,
                                       ret |-> getClockLatency(
                                                   session, mDevice, appOp.ptime,
                                                   appOp.mixtime, appOp.tspec)]>>,
                          calls |-> <<>>]
    /\ UNCHANGED <<lockOwner, appOp, session, mDevice>>
    /\ UNCHANGED managerVars
    /\ UNCHANGED registryVars
    /\ UNCHANGED uhj

SampleTimes ==
    {NoTime, [now |-> 400, rate |-> [num |-> 1, denom |-> 3], ticks |-> 2,
              delay |-> 1]}

SampleInit ==
    /\ evt = NullHandles
    /\ mInitDone = FALSE
    /\ mInitSeq = 0
    /\ mCoreListener = FALSE
    /\ mProxyList = {}
    /\ mDefaultMetadata = NullProxy
    /\ DeviceList = <<>>
    /\ DefaultSinkDev = EmptyStr
    /\ DefaultSourceDev = EmptyStr
    /\ syncCount = 0
    /\ doneQueue = <<>>
    /\ lockOwner = NoOwner
    /\ appPc = "idle"
    /\ appOp = SampleOp(NoTime)
    /\ session = [NewSession("Playback") EXCEPT !.mLoop = "running", !.loops = 1,
                                                !.mStream = "streaming"]
    /\ mDevice \in {MixDevice([NewDevice EXCEPT !.Frequency = rate,
                                                !.UpdateSize = 1,
                                                !.BufferSize = 2]) :
                        rate \in {44100, 48000}}
    /\ result = NoResult
    /\ cancelled = FALSE
    /\ uhj = NoUhj

SampleStep ==
    \/ \E time \in SampleTimes : SampleCall(time)
    \/ SampleWaitForMix
    \/ SampleMixTime
    \/ \E now \in MonoClocks : SampleClock(now)
    \/ SampleWhile

MixStep == MixBegin \/ MixAdvance \/ MixEnd

SampleNext == SampleStep \/ MixStep \/ AppReturn

\* Both threads are scheduled: the call is not held up for ever, and the
\* mixer finishes a mix it has begun.
SpecSample ==
    /\ SampleInit
    /\ [][SampleNext]_vars
    /\ WF_vars(SampleStep)
    /\ WF_vars(MixAdvance \/ MixEnd)

(***************************************************************************)
(* SpecParam: the format parameters of the one sink of the registry, with  *)
(* every shape of sample rate choice, position lists that match each       *)
(* canonical layout or none, and bare channel counts.                      *)
(***************************************************************************)
\* SPA_FORMAT_AUDIO_rate: absent, or a pod.
ParamRates ==
    {<<>>,
     <<IntPod("Enum", <<48000, 44100>>)>>,
     <<IntPod("Enum", <<4000, 44100, 96000>>)>>,
     <<IntPod("Enum", <<400000, 4000>>)>>,
     <<IntPod("Enum", <<>>)>>,
     <<IntPod("Enum", <<7999, 192001, 192000, 8000>>)>>,
     <<IntPod("None", <<96000>>)>>,
     <<IntPod("Range", <<1000, 1000, 48000>>)>>,
     <<IntPod("Range", <<400000, 8000>>)>>,
     <<IntPod("None", <<400000>>)>>,
     <<IntPod("None", <<1000, 2000>>)>>,
     <<IntPod("Step", <<500000, 1000, 500000, 1000>>)>>,
     <<[podType |-> "Long", choice |-> "Enum", vals |-> <<22050>>]>>}

\* SPA_FORMAT_AUDIO_position: absent, or the ids of an array (none when the
\* pod is no array of ids).
ParamPositions ==
    {<<>>, << <<>> >>,
     <<X71Map>>, <<X61Map>>, <<X51Map>>, <<X51RearMap>>, <<QuadMap>>,
     <<StereoMap>>, <<MonoMap>>,
     << <<"FR", "LFE", "FL">> >>,
     << <<"FL", "FC">> >>,
     << <<"AUX0", "AUX1", "AUX2">> >>,
     << <<"FL", "FR", "FC", "LFE", "RL", "RR", "SL", "SR", "RC">> >>}

\* SPA_FORMAT_AUDIO_channels: absent, or a pod.
ParamChannels ==
    {<<>>} \cup {<<[isInt |-> TRUE, chans |-> c]>> : c \in {0, 1, 2, 6}}
           \cup {<<[isInt |-> FALSE, chans |-> 2]>>}

\* The rate is parsed on its own, the positions before the channel count:
\* every rate without a layout, and every layout and count without a rate.
ParamInputs ==
    [rate : ParamRates, position : {<<>>}, channels : {<<>>}]
        \cup [rate : {<<>>}, position : ParamPositions, channels : ParamChannels]

ParamIds == {"SPA_PARAM_EnumFormat", "SPA_PARAM_Format"}

ParamNext ==
    \/ EventManagerInit("none")
    \/ SrvDone
    \/ SrvGlobal(1, NodeAdd)
    \/ SrvGlobalRemove(1)
    \/ SrvNodeInfo(1, StreamInfo)
    \/ \E id \in ParamIds, param \in ParamInputs : SrvParam(1, id, param)

SpecParam == Init /\ [][ParamNext]_vars

(***************************************************************************)
(* SpecMeta: the default metadata object and its property events, for the  *)
(* core and for another subject, with the keys of both defaults and another *)
(* one, cleared, JSON and other types, and JSON values with and without a  *)
(* name.                                                                   *)
(***************************************************************************)
MetaAdd ==
    [type |-> InterfaceMetadata, media_class |-> NullProp, data_class |-> "default",
     bound |-> TRUE]

IdKey == <<"i", "d">>

\* An object with a name, one with a name after another key, a bare string
\* and an object without a name.
MetaValues ==
    {JsonName(DevA),
     [object |-> TRUE,
      tokens |-> <<Quote(IdKey), <<"5">>, Quote(NameKey), Quote(DevB)>>],
     [object |-> FALSE, tokens |-> <<Quote(DevA)>>],
     [object |-> TRUE, tokens |-> <<Quote(IdKey), <<"5">>>>]}

MetaInputs ==
    [id : {PW_ID_CORE, 1},
     key : {"default.audio.sink", "default.audio.source",
            "default.configured.audio.sink"},
     type : {NullProp, "Spa:String:JSON", "Spa:Int"},
     value : MetaValues]

MetaNext ==
    \/ EventManagerInit("none")
    \/ SrvDone
    \/ SrvGlobal(1, NodeAdd)
    \/ SrvGlobal(2, MetaAdd)
    \/ \E id \in {1, 2} : SrvGlobalRemove(id)
    \/ SrvNodeInfo(1, StreamInfo)
    \/ \E in \in MetaInputs : SrvProperty(in)

SpecMeta == Init /\ [][MetaNext]_vars

(***************************************************************************)
(* SpecSession: one sink and the default metadata object coming and going  *)
(* while sessions are created, opened, reset, started, stopped and         *)
(* destroyed and the application probes; the session's loop may fail to be *)
(* created.                                                                *)
(***************************************************************************)
SessionProperties ==
    [id : {PW_ID_CORE}, key : {"default.audio.sink", "default.audio.source"},
     type : {NullProp, "Spa:String:JSON"}, value : {JsonName(DevA)}]

SessionParam ==
    [rate |-> <<IntPod("None", <<44100>>)>>, position |-> <<StereoMap>>,
     channels |-> <<>>]

SessionCalls == {PlaybackDefaultOpen, CaptureDefaultOpen} \cup ProbeCalls

SessionNext ==
    \/ EventManagerInit("none")
    \/ SrvDone
    \/ SrvGlobal(1, NodeAdd)
    \/ SrvGlobal(2, MetaAdd)
    \/ \E id \in {1, 2} : SrvGlobalRemove(id)
    \/ SrvNodeInfo(1, StreamInfo)
    \/ SrvParam(1, "SPA_PARAM_EnumFormat", SessionParam)
    \/ \E in \in SessionProperties : SrvProperty(in)
    \/ \E type \in BackendTypes : CreateBackend(type)
    \/ DestroyBackend
    \/ \E op \in SessionCalls : mInitDone /\ AppCall(op)
    \/ AppReturn
    \/ \E created, started \in BOOLEAN : PlaybackOpen(created, started)
    \/ \E created, started \in BOOLEAN : CaptureOpen(created, started, "none")
    \/ Probe
    \/ ResetCall(0)
    \/ ResetRead("none")
    \/ ResetWait
    \/ CaptureWait
    \/ StartCall(0)
    \/ StartWait
    \/ \E res \in {0, -1} : StopCall(res)
    \/ StopWait
    \/ \E state \in {"paused", "streaming", "error"} : StreamStateChanged(state)

SpecSession == Init /\ [][SessionNext]_vars

(***************************************************************************)
(* SpecLocks: the calls of a session with every way they end, the          *)
(* exceptions of the stream's creation and of pw_stream_set_active         *)
(* included.  getClockLatency and the probes take and give up the locks    *)
(* within one step and have no exception of their own.                     *)
(***************************************************************************)
LocksNext ==
    \/ EventManagerInit("none")
    \/ SrvDone
    \/ SrvGlobal(1, NodeAdd)
    \/ SrvGlobalRemove(1)
    \/ SrvNodeInfo(1, StreamInfo)
    \/ SrvParam(1, "SPA_PARAM_EnumFormat", SessionParam)
    \/ \E type \in BackendTypes : CreateBackend(type)
    \/ DestroyBackend
    \/ \E op \in SessionCalls : mInitDone /\ AppCall(op)
    \/ AppReturn
    \/ \E created, started \in BOOLEAN : PlaybackOpen(created, started)
    \/ \E created, started \in BOOLEAN, failAt \in StreamFailures :
           CaptureOpen(created, started, failAt)
    \/ Probe
    \/ ResetCall(0)
    \/ \E failAt \in StreamFailures : ResetRead(failAt)
    \/ ResetWait
    \/ CaptureWait
    \/ \E res \in {0, -1} : StartCall(res)
    \/ StartWait
    \/ \E res \in {0, -1} : StopCall(res)
    \/ StopWait
    \/ \E state \in {"paused", "streaming", "error", "unconnected"} :
           StreamStateChanged(state)

SpecLocks == Init /\ [][LocksNext]_vars

(***************************************************************************)
(* The specification of teardown: init may fail at any step, a session's   *)
(* loop may fail to be created or to start, its stream may fail to be      *)
(* created or connected, and the backend object and the event manager are  *)
(* destroyed in whatever state they are in.                                *)
(***************************************************************************)
TeardownCalls == {PlaybackDefaultOpen, CaptureDefaultOpen}

TeardownNext ==
    \/ \E failAt \in InitFailures : EventManagerInit(failAt)
    \/ SrvDone
    \/ SrvGlobal(1, NodeAdd)
    \/ SrvGlobal(2, MetaAdd)
    \/ SrvNodeInfo(1, StreamInfo)
    \/ \E type \in BackendTypes : CreateBackend(type)
    \/ DestroyBackend
    \/ \E op \in TeardownCalls : mInitDone /\ AppCall(op)
    \/ AppReturn
    \/ \E created, started \in BOOLEAN : PlaybackOpen(created, started)
    \/ \E created, started \in BOOLEAN, failAt \in StreamFailures :
           CaptureOpen(created, started, failAt)
    \/ CaptureWait
    \/ ResetCall(0)
    \/ \E failAt \in StreamFailures : ResetRead(failAt)
    \/ ResetWait
    \/ \E state \in {"paused", "error"} : StreamStateChanged(state)
    \/ EventManagerDestroy

SpecTeardown == Init /\ [][TeardownNext]_vars

(***************************************************************************)
(* SpecRegistry: the registry alone.  Nodes are announced, bound, described *)
(* by info events with every source of a display name, given formats and   *)
(* removed, in any order; some announcements are of no audio node and some *)
(* infos carry another media class, no media class or no property change.  *)
(***************************************************************************)
NameN == <<"N">>

\* The two nodes of the registry.
RegistryIds == {1, 2}

RegistryAddInputs ==
    {NodeAdd, [NodeAdd EXCEPT !.media_class = "Video/Source"]}

RegistryInfoInputs ==
    {NodeProps(TRUE, "Audio/Sink", DevA, NameA),
     [NodeProps(TRUE, "audio/source", DevA, EmptyStr) EXCEPT !.nick = NameN],
     NodeProps(TRUE, "Audio/Sink", DevB, NullStr),
     NodeProps(TRUE, "Audio/Source", NullStr, NullStr),
     NodeProps(TRUE, "Video/Source", DevA, NameA),
     NodeProps(TRUE, NullProp, DevA, NameA),
     NodeProps(FALSE, "Audio/Source", DevB, NameA)}

RegistryNext ==
    \/ EventManagerInit("none")
    \/ SrvDone
    \/ \E id \in RegistryIds, in \in RegistryAddInputs : SrvGlobal(id, in)
    \/ \E id \in RegistryIds : SrvGlobalRemove(id)
    \/ \E id \in RegistryIds, props \in RegistryInfoInputs : SrvNodeInfo(id, props)
    \/ \E mId \in RegistryIds, id \in ParamIds : SrvParam(mId, id, SessionParam)

SpecRegistry == Init /\ [][RegistryNext]_vars

\* The PipeWire backend takes no part: its variables keep their values as
\* constructed.
BackendUnused ==
    /\ evt = NullHandles
    /\ mInitDone = FALSE
    /\ mInitSeq = 0
    /\ mCoreListener = FALSE
    /\ mProxyList = {}
    /\ mDefaultMetadata = NullProxy
    /\ DeviceList = <<>>
    /\ DefaultSinkDev = EmptyStr
    /\ DefaultSourceDev = EmptyStr
    /\ syncCount = 0
    /\ doneQueue = <<>>
    /\ lockOwner = NoOwner
    /\ appPc = "idle"
    /\ appOp = NoOp
    /\ session = NewSession("none")
    /\ mDevice = NewDevice
    /\ result = NoResult
    /\ cancelled = FALSE

(***************************************************************************)
(* UhjEncoder (utils/uhjencoder.cpp).  Samples are integers; the encoder's *)
(* coefficients are kept with their seven decimals, so a value of mS, mD   *)
(* or mTemp is in units of 10^-7.                                          *)
(***************************************************************************)
Zeros(n) == [i \in 1..n |-> 0]

\* An element of mD: the value stored by the std::transform of line 116
\* (direct) and the phase-shifted terms accumulated onto it afterwards, each
\* one the window of mTemp the filter read for it.
SideOf(direct) == [direct |-> direct, shift |-> <<>>]

\* UhjEncoder as constructed: all four arrays are value-initialized.
NewEncoder ==
    [mS |-> Zeros(BufferLineSize + sFilterDelay),
     mD |-> [i \in 1..(BufferLineSize + sFilterDelay) |-> SideOf(0)],
     mWXHistory |-> Zeros(sFilterDelay * 2 - 1),
     mTemp |-> Zeros(BufferLineSize + sFilterDelay * 2)]

\* S = 0.9396926*W + 0.1855740*X
MidOf(in) == 9396926 * in.w + 1855740 * in.x

\* D = 0.6554516*Y
SideDirectOf(in) == 6554516 * in.y

\* -0.3420201*W + 0.5098604*X, the input of the phase shifter.
ShiftInputOf(in) == 5098604 * in.x - 3420201 * in.w

\* PhaseShifterT::processAccum(dst, src): every dst[i] receives, added to
\* what it holds, the filter's response to the 2*sFilterDelay samples of src
\* from i on (the history and the sample itself).
processAccum(dst, count, src) ==
    [i \in 1..Len(dst) |->
        IF i <= count
        THEN [dst[i] EXCEPT !.shift = @ \o <<SubSeq(src, i, i + sFilterDelay * 2 - 1)>>]
        ELSE dst[i]]

\* SaveHistory that assumes a full block.
SaveHistory_FullBlock(mTemp, SamplesToDo) ==
    [i \in 1..(sFilterDelay * 2 - 1) |-> mTemp[BufferLineSize + i]]

\* std::copy_n(mTemp.cbegin()+SamplesToDo, mWXHistory.size(), mWXHistory.begin())
SaveHistory(mTemp, SamplesToDo) ==
    [i \in 1..(sFilterDelay * 2 - 1) |-> mTemp[SamplesToDo + i]]

\* CopyFuture that assumes a full block.
CopyFuture_FullBlock(buf, SamplesToDo) ==
    [i \in 1..Len(buf) |-> IF i <= sFilterDelay THEN buf[BufferLineSize + i]
                            ELSE buf[i]]

\* std::copy(buf.cbegin()+SamplesToDo, buf.cbegin()+SamplesToDo+sFilterDelay,
\* buf.begin()): the copy runs forwards and reads ahead of what it writes;
\* with SamplesToDo = 0 it copies every element onto itself.
CopyFuture(buf, SamplesToDo) ==
    [i \in 1..Len(buf) |-> IF i <= sFilterDelay THEN buf[SamplesToDo + i]
                            ELSE buf[i]]

\* UhjEncoder::encode(LeftOut, RightOut, InSamples, SamplesToDo): the encoder
\* afterwards and the SamplesToDo output samples.  left[i] = (mS[i] + mD[i])
\* * 0.5f and right[i] = (mS[i] - mD[i]) * 0.5f are kept as the mS[i] and
\* mD[i] they are computed from.
encode(enc, InSamples, SamplesToDo) ==
    LET mS == [i \in 1..Len(enc.mS) |->
                  IF i > sFilterDelay /\ i <= sFilterDelay + SamplesToDo
                  THEN MidOf(InSamples[i - sFilterDelay]) ELSE enc.mS[i]]
        mD == [i \in 1..Len(enc.mD) |->
                  IF i > sFilterDelay /\ i <= sFilterDelay + SamplesToDo
                  THEN SideOf(SideDirectOf(InSamples[i - sFilterDelay]))
                  ELSE enc.mD[i]]
        hlen == sFilterDelay * 2 - 1
        mTemp == [i \in 1..Len(enc.mTemp) |->
                     IF i <= hlen THEN enc.mWXHistory[i]
                     ELSE IF i <= hlen + SamplesToDo
                     THEN ShiftInputOf(InSamples[i - hlen])
                     ELSE enc.mTemp[i]]
        mDacc == processAccum(mD, SamplesToDo, mTemp)
    IN  [enc |-> [mS |-> CopyFuture(mS, SamplesToDo),
                  mD |-> CopyFuture(mDacc, SamplesToDo),
                  mWXHistory |-> SaveHistory(mTemp, SamplesToDo),
                  mTemp |-> mTemp],
         out |-> [i \in 1..SamplesToDo |-> [mS |-> mS[i], mD |-> mDacc[i]]]]

(***************************************************************************)
(* The specification of the encoder: encode is called with any number of   *)
(* samples up to BufferLineSize, of any of the frames below, until MaxFed  *)
(* samples have been fed.                                                  *)
(***************************************************************************)
ZeroFrame == [w |-> 0, x |-> 0, y |-> 0]
Frames == {ZeroFrame, [w |-> 1, x |-> -2, y |-> 3]}

\* uhj while an encoder is driven directly: fed and out are the samples
\* passed to and returned by all encode calls so far, counts the
\* different SamplesToDo of these calls.
EncodeInit ==
    /\ BackendUnused
    /\ uhj = [pc |-> "encode", encoder |-> NewEncoder, fed |-> <<>>, out |-> <<>>,
              counts |-> {}]

\* One call of encoder->encode with the given samples.
Encode(InSamples) ==
    /\ uhj.pc = "encode"
    /\ Len(uhj.fed) + Len(InSamples) <= MaxFed
    /\ LET r == encode(uhj.encoder, InSamples, Len(InSamples))
       IN  uhj' = [uhj EXCEPT !.encoder = r.enc,
                              !.fed = @ \o InSamples,
                              !.out = @ \o r.out,
                              !.counts = @ \cup {Len(InSamples)}]
    /\ UNCHANGED backendVars

EncodeNext ==
    \E n \in 0..BufferLineSize : \E InSamples \in [1..n -> Frames] :
        Encode(InSamples)

SpecEncode == EncodeInit /\ [][EncodeNext]_vars

(***************************************************************************)
(* The channel mapping of the encoder utility.  Angles are in thousandths  *)
(* of a radian and gains in thousandths; the trigonometric functions are   *)
(* computed by their power series in that fixed-point arithmetic, with     *)
(* division truncating towards zero, so that cos is even and sin is odd as *)
(* for the floating-point functions of the C library.                      *)
(***************************************************************************)
\* Deg2Rad(x): x * (pi / 180).
Deg2Rad(deg) == TruncDiv(deg * 31416, 1800)

\* The sum of the series from the given term on: term is the term of x^n,
\* and the next one is -term * x^2 / ((n+1)(n+2)).
RECURSIVE Series(_, _, _)
Series(term, x2, n) ==
    IF term = 0 THEN 0
    ELSE term + Series(TruncDiv(-(term * x2), 1000 * (n + 1) * (n + 2)), x2, n + 2)

\* std::cos and std::sin.
Cos(rad) == Series(1000, TruncDiv(rad * rad, 1000), 0)
Sin(rad) == Series(rad, TruncDiv(rad * rad, 1000), 1)

\* The product of two values in thousandths.
Times(a, b) == TruncDiv(a * b, 1000)

SpkrStereoMap ==
    <<[mChannelID |-> "LEFT", mAzimuth |-> Deg2Rad(30), mElevation |-> Deg2Rad(0)],
      [mChannelID |-> "RIGHT", mAzimuth |-> Deg2Rad(-30), mElevation |-> Deg2Rad(0)]>>

SpkrQuadMap ==
    <<[mChannelID |-> "LEFT", mAzimuth |-> Deg2Rad(45), mElevation |-> Deg2Rad(0)],
      [mChannelID |-> "RIGHT", mAzimuth |-> Deg2Rad(-45), mElevation |-> Deg2Rad(0)],
      [mChannelID |-> "REAR_LEFT", mAzimuth |-> Deg2Rad(135), mElevation |-> Deg2Rad(0)],
      [mChannelID |-> "REAR_RIGHT", mAzimuth |-> Deg2Rad(-135), mElevation |-> Deg2Rad(0)]>>

SpkrX51Map ==
    <<[mChannelID |-> "LEFT", mAzimuth |-> Deg2Rad(30), mElevation |-> Deg2Rad(0)],
      [mChannelID |-> "RIGHT", mAzimuth |-> Deg2Rad(-30), mElevation |-> Deg2Rad(0)],
      [mChannelID |-> "CENTER", mAzimuth |-> Deg2Rad(0), mElevation |-> Deg2Rad(0)],
      [mChannelID |-> "LFE", mAzimuth |-> 0, mElevation |-> 0],
      [mChannelID |-> "SIDE_LEFT", mAzimuth |-> Deg2Rad(110), mElevation |-> Deg2Rad(0)],
      [mChannelID |-> "SIDE_RIGHT", mAzimuth |-> Deg2Rad(-110), mElevation |-> Deg2Rad(0)]>>

SpkrX51RearMap ==
    <<[mChannelID |-> "LEFT", mAzimuth |-> Deg2Rad(30), mElevation |-> Deg2Rad(0)],
      [mChannelID |-> "RIGHT", mAzimuth |-> Deg2Rad(-30), mElevation |-> Deg2Rad(0)],
      [mChannelID |-> "CENTER", mAzimuth |-> Deg2Rad(0), mElevation |-> Deg2Rad(0)],
      [mChannelID |-> "LFE", mAzimuth |-> 0, mElevation |-> 0],
      [mChannelID |-> "REAR_LEFT", mAzimuth |-> Deg2Rad(110), mElevation |-> Deg2Rad(0)],
      [mChannelID |-> "REAR_RIGHT", mAzimuth |-> Deg2Rad(-110), mElevation |-> Deg2Rad(0)]>>

SpkrX71Map ==
    <<[mChannelID |-> "LEFT", mAzimuth |-> Deg2Rad(30), mElevation |-> Deg2Rad(0)],
      [mChannelID |-> "RIGHT", mAzimuth |-> Deg2Rad(-30), mElevation |-> Deg2Rad(0)],
      [mChannelID |-> "CENTER", mAzimuth |-> Deg2Rad(0), mElevation |-> Deg2Rad(0)],
      [mChannelID |-> "LFE", mAzimuth |-> 0, mElevation |-> 0],
      [mChannelID |-> "REAR_LEFT", mAzimuth |-> Deg2Rad(150), mElevation |-> Deg2Rad(0)],
      [mChannelID |-> "REAR_RIGHT", mAzimuth |-> Deg2Rad(-150), mElevation |-> Deg2Rad(0)],
      [mChannelID |-> "SIDE_LEFT", mAzimuth |-> Deg2Rad(90), mElevation |-> Deg2Rad(0)],
      [mChannelID |-> "SIDE_RIGHT", mAzimuth |-> Deg2Rad(-90), mElevation |-> Deg2Rad(0)]>>

SpkrX714Map ==
    <<[mChannelID |-> "LEFT", mAzimuth |-> Deg2Rad(30), mElevation |-> Deg2Rad(0)],
      [mChannelID |-> "RIGHT", mAzimuth |-> Deg2Rad(-30), mElevation |-> Deg2Rad(0)],
      [mChannelID |-> "CENTER", mAzimuth |-> Deg2Rad(0), mElevation |-> Deg2Rad(0)],
      [mChannelID |-> "LFE", mAzimuth |-> 0, mElevation |-> 0],
      [mChannelID |-> "REAR_LEFT", mAzimuth |-> Deg2Rad(150), mElevation |-> Deg2Rad(0)],
      [mChannelID |-> "REAR_RIGHT", mAzimuth |-> Deg2Rad(-150), mElevation |-> Deg2Rad(0)],
      [mChannelID |-> "SIDE_LEFT", mAzimuth |-> Deg2Rad(90), mElevation |-> Deg2Rad(0)],
      [mChannelID |-> "SIDE_RIGHT", mAzimuth |-> Deg2Rad(-90), mElevation |-> Deg2Rad(0)],
      [mChannelID |-> "TOP_FRONT_LEFT", mAzimuth |-> Deg2Rad(45), mElevation |-> Deg2Rad(35)],
      [mChannelID |-> "TOP_FRONT_RIGHT", mAzimuth |-> Deg2Rad(-45), mElevation |-> Deg2Rad(35)],
      [mChannelID |-> "TOP_REAR_LEFT", mAzimuth |-> Deg2Rad(135), mElevation |-> Deg2Rad(35)],
      [mChannelID |-> "TOP_REAR_RIGHT", mAzimuth |-> Deg2Rad(-135), mElevation |-> Deg2Rad(35)]>>

\* GenCoeffs with the x and y arguments taken for each other.
GenCoeffs_SwapsXY(x, y, z) ==
    <<1000, TruncDiv(14142 * y, 10000), TruncDiv(14142 * x, 10000),
      TruncDiv(14142 * z, 10000)>>

\* GenCoeffs(x, y, z): coeffs[0..3] of the source are elements 1..4 here.
GenCoeffs(x, y, z) ==
    <<1000, TruncDiv(14142 * x, 10000), TruncDiv(14142 * y, 10000),
      TruncDiv(14142 * z, 10000)>>

\* The coefficients the loop over spkrs computes for a speaker (407-410).
SpeakerCoeffs(spkr) ==
    GenCoeffs(Times(Cos(spkr.mAzimuth), Cos(spkr.mElevation)),
              Times(Sin(spkr.mAzimuth), Cos(spkr.mElevation)),
              Sin(spkr.mElevation))

\* The speaker maps main chooses from (StereoMap, QuadMap, ... of
\* uhjencoder.cpp), by name.
SpeakerMaps ==
    [StereoMap |-> SpkrStereoMap, QuadMap |-> SpkrQuadMap, X51Map |-> SpkrX51Map,
     X51RearMap |-> SpkrX51RearMap, X71Map |-> SpkrX71Map, X714Map |-> SpkrX714Map]

\* uhj while one frame is mapped: spkrs names the map chosen for the file,
\* next is the channel the loop is at, ambmem the frame of ambmem (W, X, Y,
\* Z; filled with zeros before the loop), coeffs the coefficients computed
\* for the speakers passed, <<>> for the LFE.
MapInit ==
    /\ BackendUnused
    /\ uhj \in {[pc |-> "map", spkrs |-> name, next |-> 1,
                 ambmem |-> <<0, 0, 0, 0>>, coeffs |-> <<>>] :
                    name \in DOMAIN SpeakerMaps}

\* One pass of the loop over spkrs (394-416) for a frame whose sample of the
\* channel is srcmem.
MapSpeaker(srcmem) ==
    /\ uhj.pc = "map"
    /\ uhj.next <= Len(SpeakerMaps[uhj.spkrs])
    /\ LET spkr == SpeakerMaps[uhj.spkrs][uhj.next]
           coeffs == SpeakerCoeffs(spkr)
       IN  IF spkr.mChannelID = "LFE"
           THEN uhj' = [uhj EXCEPT !.next = @ + 1, !.coeffs = @ \o <<<<>>>>]
           ELSE uhj' = [uhj EXCEPT
                           !.next = @ + 1,
                           !.coeffs = @ \o <<coeffs>>,
                           !.ambmem = [c \in 1..4 |-> @[c] + srcmem * coeffs[c]]]
    /\ UNCHANGED backendVars

MapNext == \E srcmem \in {0, 1} : MapSpeaker(srcmem)

SpecMap == MapInit /\ [][MapNext]_vars

(***************************************************************************)
(* The conversion loop of main (utils/uhjencoder.cpp, 354-437) for one     *)
(* input file.  The file is the sequence of its frames as the channel      *)
(* mapping of 376-416 hands them to the encoder, frame i of the file being *)
(* frame i of ambmem; sf_readf_float reads as many frames as are asked for *)
(* and left, sf_writef_float writes the frames it is given.                *)
(***************************************************************************)
InputFiles == UNION {[1..n -> Frames] : n \in 0..MaxFrames}

\* uhj at the loop's start: pos is the file's read position, fed the frames
\* passed to the encoder (the index of the file's frame, 0 for a frame of
\* padding), wrote the frames written (their index in the encoder's output).
ConvertInit ==
    /\ BackendUnused
    /\ uhj \in {[pc |-> "convert", file |-> f, pos |-> 0,
                 encoder |-> NewEncoder,
                 total_wrote |-> 0,
                 LeadIn |-> sFilterDelay,
                 LeadOut |-> sFilterDelay,
                 fed |-> <<>>, wrote |-> <<>>] : f \in InputFiles}

\* LeadOutPad that fills the block.
LeadOutPad_FillsBlock(sgot, LeadOut) == BufferLineSize - sgot

\* remaining{std::min(BufferLineSize - sgot, LeadOut)}
LeadOutPad(sgot, LeadOut) ==
    IF BufferLineSize - sgot < LeadOut THEN BufferLineSize - sgot ELSE LeadOut

\* One pass of the loop body: read, pad with silence at the end of the
\* input, encode, skip what is left of the lead-in, write.
ConvertBlock ==
    /\ uhj.pc = "convert"
    /\ uhj.LeadIn > 0 \/ uhj.LeadOut > 0
    /\ LET left == Len(uhj.file) - uhj.pos
           sgot == IF left < BufferLineSize THEN left ELSE BufferLineSize
           remaining == IF sgot < BufferLineSize
                        THEN LeadOutPad(sgot, uhj.LeadOut) ELSE 0
           got == sgot + remaining
           inmem == [i \in 1..got |-> IF i <= sgot THEN uhj.file[uhj.pos + i]
                                      ELSE ZeroFrame]
           r == encode(uhj.encoder, inmem, got)
           base == Len(uhj.fed)
           next == [uhj EXCEPT !.pos = @ + sgot,
                               !.LeadOut = @ - remaining,
                               !.encoder = r.enc,
                               !.fed = @ \o [i \in 1..got |->
                                                IF i <= sgot THEN uhj.pos + i ELSE 0]]
       IN  IF uhj.LeadIn >= got
           THEN uhj' = [next EXCEPT !.LeadIn = @ - got]
           ELSE uhj' = [next EXCEPT
                           !.LeadIn = 0,
                           !.wrote = @ \o [i \in 1..(got - uhj.LeadIn) |->
                                              base + uhj.LeadIn + i],
                           !.total_wrote = @ + (got - uhj.LeadIn)]
    /\ UNCHANGED backendVars

\* The loop's condition is false: the summary is printed.
ConvertDone ==
    /\ uhj.pc = "convert"
    /\ ~(uhj.LeadIn > 0 \/ uhj.LeadOut > 0)
    /\ uhj' = [uhj EXCEPT !.pc = "done"]
    /\ UNCHANGED backendVars

ConvertNext ==
    \/ ConvertBlock
    \/ ConvertDone

\* The loop is a sequential program: it takes its next step when it has one.
SpecConvert == ConvertInit /\ [][ConvertNext]_vars /\ WF_vars(ConvertNext)

(***************************************************************************)
(* Properties.                                                             *)
(***************************************************************************)
MinOf(S) == CHOOSE i \in S : \A j \in S : i <= j

\* The positions of DeviceList whose entry satisfies Test.
Positions(Test(_)) == {i \in 1..Len(DeviceList) : Test(DeviceList[i])}

OpenKinds == {"pbOpen", "capOpen"}
ProbeKinds == {"probePlayback", "probeCapture"}

\* The step in which a call of the given kinds does its registry section and
\* ends.
CallEnds(kinds) == appPc = "read" /\ appOp.kind \in kinds /\ appPc' = "done"

\* C1: mInitDone becomes true only in a step that delivers a core 'done'
\* event whose sequence number is mInitSeq, the number the most recently
\* issued sync returned; a 'done' for an earlier sequence number leaves
\* mInitDone as it was; and mInitDone never goes from true to false.
C1_BarrierOnLastSync ==
    [][/\ mInitDone => mInitDone'
       /\ (~mInitDone /\ mInitDone') =>
              /\ doneQueue # <<>>
              /\ doneQueue' = Tail(doneQueue)
              /\ Head(doneQueue).id = PW_ID_CORE
              /\ Head(doneQueue).seq = mInitSeq
              /\ mInitSeq = syncCount
       /\ (/\ doneQueue # <<>>
           /\ doneQueue' = Tail(doneQueue)
           /\ Head(doneQueue).seq < syncCount) => mInitDone' = mInitDone]_vars

\* The barrier fired on the answer to a later sync than the one of init().
C1_Witness == mInitDone /\ mInitSeq >= 2 /\ doneQueue = <<>>

\* C2: a remove event for the id of a bound node, processed before the
\* barrier fired, leaves no DeviceList entry and no proxy with that id; and
\* with every sync answered, a started watcher's barrier still fires and a
\* thread blocked in waitForInit gets to its registry read.
C2_AddRemoveBeforeBarrier ==
    /\ [][\A id \in ObjIds :
             (~mInitDone /\ HasProxy(id) /\ SrvGlobalRemove(id)) =>
                 /\ \A i \in 1..Len(DeviceList') : DeviceList'[i].mId # id
                 /\ id \notin mProxyList']_vars
    /\ (cancelled /\ ~mInitDone) ~> mInitDone
    /\ (cancelled /\ appPc = "blocked") ~> (appPc = "read")

\* A node was removed before the barrier fired, and a thread waits for it.
C2_Witness == cancelled /\ ~mInitDone /\ appPc = "blocked" /\ mProxyList = {}

\* C3: open and probe stand at their registry read only with mInitDone true;
\* a call that found mInitDone false sleeps without the lock.
C3_ReadsAfterBarrier ==
    /\ (appPc = "read" /\ appOp.kind \in OpenKinds \cup ProbeKinds) => mInitDone
    /\ appPc = "blocked" => (~mInitDone /\ lockOwner # App)

\* A call that had to wait for a later sync's answer is at its registry read.
C3_Witness ==
    /\ appPc = "read"
    /\ appOp.kind = "capOpen"
    /\ mInitSeq >= 2
    /\ Len(DeviceList) > 0

\* C4: open with an explicit name that no entry of the session's direction
\* has (for capture: that is also not "Monitor of " and a playback entry's
\* name) ends with NoDevice and leaves the registry, the session's target id
\* and event loop and the device name as they were.
C4_NoMatch ==
    /\ appOp.name # NullStr
    /\ appOp.kind = "pbOpen" =>
           Positions(LAMBDA n : ~n.mCapture /\ n.mName = appOp.name) = {}
    /\ appOp.kind = "capOpen" =>
           /\ Positions(LAMBDA n : n.mCapture /\ n.mName = appOp.name) = {}
           /\ Positions(LAMBDA n : /\ ~n.mCapture
                                   /\ MonitorPrefix \o n.mName = appOp.name) = {}

C4_UnknownNameChangesNothing ==
    [][(CallEnds(OpenKinds) /\ C4_NoMatch) =>
           /\ result'.status = "NoDevice"
           /\ DeviceList' = DeviceList
           /\ DefaultSinkDev' = DefaultSinkDev
           /\ DefaultSourceDev' = DefaultSourceDev
           /\ session'.mTargetId = session.mTargetId
           /\ session'.mLoop = session.mLoop
           /\ mDevice'.DeviceName = mDevice.DeviceName]_vars

\* An open by the bare name of a sink failed on a capture session that had
\* been opened before.
C4_Witness ==
    /\ appPc = "done"
    /\ result.op = "capOpen"
    /\ result.name = NameA
    /\ result.status = "NoDevice"
    /\ session.mTargetId # PwIdAny
    /\ \E i \in 1..Len(DeviceList) : DeviceList[i].mName = NameA

\* C5: the entry PipeWirePlayback::open without a name targets (0: none).
C5_Target ==
    LET byDefault == Positions(LAMBDA n : n.mDevName = DefaultSinkDev)
        playbacks == Positions(LAMBDA n : ~n.mCapture)
    IN  IF DefaultSinkDev # EmptyStr /\ byDefault # {} THEN MinOf(byDefault)
        ELSE IF playbacks # {} THEN MinOf(playbacks)
        ELSE 0

\* C5: PipeWirePlayback::open without a name takes the first entry whose
\* device name is the non-empty DefaultSinkDev, else the first playback
\* entry; it ends with NoDevice exactly when there is neither; on success
\* the target id is that entry's id and the device name its display name.
C5_PlaybackDefaultOpen ==
    [][(CallEnds({"pbOpen"}) /\ appOp.name = NullStr) =>
           /\ (result'.status = "NoDevice") <=> (C5_Target = 0)
           /\ result'.status = "ok" =>
                  /\ session'.mTargetId = DeviceList[C5_Target].mId
                  /\ mDevice'.DeviceName = DeviceList[C5_Target].mName]_vars

\* The default sink's entry was taken although another entry comes first.
C5_Witness ==
    /\ appPc = "done"
    /\ result.op = "pbOpen"
    /\ result.name = NullStr
    /\ result.status = "ok"
    /\ DefaultSinkDev # EmptyStr
    /\ Len(DeviceList) = 2
    /\ ~DeviceList[1].mCapture
    /\ DeviceList[2].mDevName = DefaultSinkDev
    /\ session.mTargetId = DeviceList[2].mId

\* C6: the entry PipeWireCapture::open without a name targets (0: none).
C6_Target ==
    LET byDefault == Positions(LAMBDA n : n.mDevName = DefaultSourceDev)
        captures == Positions(LAMBDA n : n.mCapture)
        playbacks == Positions(LAMBDA n : ~n.mCapture)
    IN  IF DefaultSourceDev # EmptyStr /\ byDefault # {} THEN MinOf(byDefault)
        ELSE IF captures # {} THEN MinOf(captures)
        ELSE IF playbacks # {} THEN MinOf(playbacks)
        ELSE 0

\* C6: PipeWireCapture::open without a name takes the entry of the non-empty
\* DefaultSourceDev, else the first capture entry, else the first playback
\* entry; it ends with NoDevice only when DeviceList is empty; the device
\* name is the display name of a capture entry and "Monitor of " and the
\* display name of a playback entry.
C6_CaptureDefaultOpen ==
    [][(CallEnds({"capOpen"}) /\ appOp.name = NullStr) =>
           /\ (C6_Target = 0) <=> (DeviceList = <<>>)
           /\ (result'.status = "NoDevice") => (DeviceList = <<>>)
           /\ (C6_Target # 0 /\ session'.mLoop = "running") =>
                  /\ session'.mTargetId = DeviceList[C6_Target].mId
                  /\ mDevice'.DeviceName =
                         IF DeviceList[C6_Target].mCapture
                         THEN DeviceList[C6_Target].mName
                         ELSE MonitorPrefix \o DeviceList[C6_Target].mName]_vars

\* C7: the entry PipeWireCapture::open with a name targets (0: none).
C7_Target ==
    LET byName == Positions(LAMBDA n : n.mCapture /\ n.mName = appOp.name)
        monitors == Positions(LAMBDA n : /\ ~n.mCapture
                                         /\ MonitorPrefix \o n.mName = appOp.name)
    IN  IF byName # {} THEN MinOf(byName)
        ELSE IF monitors # {} THEN MinOf(monitors)
        ELSE 0

\* C7: PipeWireCapture::open with a name takes the first capture entry with
\* exactly that display name; only without one, and for a name that is
\* "Monitor of " and a playback entry's display name, the first such playback
\* entry; a playback entry is never taken for its bare name.  Without such
\* an entry the call ends with NoDevice and the target stays as it was.
C7_CaptureNamedOpen ==
    [][(CallEnds({"capOpen"}) /\ appOp.name # NullStr) =>
           /\ C7_Target = 0 =>
                  /\ result'.status = "NoDevice"
                  /\ session'.mTargetId = session.mTargetId
           /\ (C7_Target # 0 /\ session'.mLoop = "running") =>
                  /\ session'.mTargetId = DeviceList[C7_Target].mId
                  /\ mDevice'.DeviceName = appOp.name
                  /\ LET n == DeviceList[C7_Target]
                     IN  /\ ~n.mCapture => n.mName # appOp.name
                         /\ n.mCapture => n.mName = appOp.name]_vars

\* A capture entry named "Monitor of A" was taken although the sink A comes
\* before it in the registry.
C7_Witness ==
    /\ appPc = "done"
    /\ result.op = "capOpen"
    /\ result.name = MonitorPrefix \o NameA
    /\ session.mLoop = "running"
    /\ Len(DeviceList) = 2
    /\ ~DeviceList[1].mCapture /\ DeviceList[1].mName = NameA
    /\ DeviceList[2].mCapture /\ DeviceList[2].mName = MonitorPrefix \o NameA
    /\ session.mTargetId = DeviceList[2].mId
    /\ mDevice.DeviceName = MonitorPrefix \o NameA

\* The entries of DeviceList with ids from id on, in ascending id order.
RECURSIVE EntriesFrom(_)
EntriesFrom(id) ==
    IF id > MaxIds THEN <<>>
    ELSE SelectSeq(DeviceList, LAMBDA n : n.mId = id) \o EntriesFrom(id + 1)

\* The display names of a sequence of entries, each after the prefix.
NamesOf(entries, prefix) ==
    [i \in 1..Len(entries) |-> prefix \o entries[i].mName]

\* C8: what probe returns for the registry as it is: the default's entry and
\* then the others by ascending id.
C8_Names(isCapture, default) ==
    LET byId == EntriesFrom(1)
        hits == {i \in 1..Len(byId) : byId[i].mDevName = default}
        defId == IF hits = {} THEN PwIdAny ELSE byId[MinOf(hits)].mId
        def == SelectSeq(byId, LAMBDA n : n.mId = defId)
        others(dir) == SelectSeq(byId, LAMBDA n : n.mId # defId /\ n.mCapture = dir)
    IN  IF ~isCapture
        THEN NamesOf(def, EmptyStr) \o NamesOf(others(FALSE), EmptyStr)
        ELSE NamesOf(SelectSeq(def, LAMBDA n : n.mCapture), EmptyStr)
             \o NamesOf(SelectSeq(def, LAMBDA n : ~n.mCapture), MonitorPrefix)
             \o NamesOf(others(TRUE), EmptyStr)
             \o NamesOf(others(FALSE), MonitorPrefix)

\* C8: probe returns the default's entry first and then every other entry of
\* the direction once, by ascending id (for Capture: the capture entries,
\* then the playback entries as "Monitor of " names); DeviceList keeps its
\* entries and only their order changes.
C8_ProbeOrder ==
    [][CallEnds(ProbeKinds) =>
           /\ result'.names =
                  IF appOp.kind = "probePlayback"
                  THEN C8_Names(FALSE, DefaultSinkDev)
                  ELSE C8_Names(TRUE, DefaultSourceDev)
           /\ Len(DeviceList') = Len(DeviceList)
           /\ {DeviceList'[i] : i \in 1..Len(DeviceList')}
                  = {DeviceList[i] : i \in 1..Len(DeviceList)}
           /\ DefaultSinkDev' = DefaultSinkDev
           /\ DefaultSourceDev' = DefaultSourceDev]_vars

\* A capture probe listed the default source, a sink, as a monitor and then
\* the capture entry with the lower id.
C8_Witness ==
    /\ appPc = "done"
    /\ result.op = "probeCapture"
    /\ DefaultSourceDev # EmptyStr
    /\ Len(DeviceList) = 2
    /\ DeviceList[1].mCapture /\ ~DeviceList[2].mCapture
    /\ result.names = <<MonitorPrefix \o DeviceList[2].mName, DeviceList[1].mName>>

\* C9: removeCallback(id) runs as one step while no reader holds the lock,
\* and after it there is no DeviceList entry and no NodeProxy with the id,
\* and mDefaultMetadata is null if it had the id.
C9_RemovalAtomic ==
    [][\A id \in ObjIds :
           (SrvGlobalRemove(id)
               /\ (HasEntry(id) \/ HasProxy(id) \/ mDefaultMetadata = id)) =>
               /\ appPc # "read"
               /\ lockOwner = NoOwner
               /\ \A i \in 1..Len(DeviceList') : DeviceList'[i].mId # id
               /\ id \notin mProxyList'
               /\ mDefaultMetadata' # id
               /\ mDefaultMetadata = id => mDefaultMetadata' = NullProxy]_vars

\* The node a session targets and the metadata object that had set a default
\* have both been removed.
C9_Witness ==
    /\ session.mTargetId \in ObjIds
    /\ ~HasEntry(session.mTargetId)
    /\ ~HasProxy(session.mTargetId)
    /\ mDefaultMetadata = NullProxy
    /\ DefaultSinkDev # EmptyStr

\* C10: an application call stands at its registry read only holding the
\* watcher's lock, and while it stands there no step of the watcher changes
\* DeviceList, DefaultSinkDev or DefaultSourceDev.
C10_ReadsUnderLock ==
    /\ [](appPc = "read" => lockOwner = App)
    /\ [][(appPc = "read" /\ ~CallEnds(OpenKinds \cup ProbeKinds \cup {"pbReset"}))
             => UNCHANGED registryVars]_vars
    /\ [][(registryVars' # registryVars /\ appPc' = appPc)
             => (appPc # "read" /\ lockOwner = NoOwner)]_vars

\* reset is at its registry read, holding the lock.
C10_Witness ==
    /\ appPc = "read"
    /\ appOp.kind = "pbReset"
    /\ lockOwner = App
    /\ HasEntry(session.mTargetId)

\* The step of reset that reads the registry (and goes on to the stream).
ResetReads == appPc = "read" /\ appOp.kind = "pbReset" /\ appPc' # "read"

\* The positions of the entry the session targets.
TargetEntry == Positions(LAMBDA n : n.mId = session.mTargetId)

\* C11: reset leaves Frequency and UpdateSize as they were when
\* FrequencyRequest is set, and FmtChans when ChannelsRequest is set;
\* without the flag and with the target's entry in the registry, Frequency
\* becomes the entry's sample rate if that is known (> 0) and FmtChans its
\* channel configuration if that is known; unknown values and a missing
\* entry change nothing.
C11_PinnedValuesKept ==
    [][ResetReads =>
          /\ "FrequencyRequest" \in mDevice.Flags =>
                 /\ mDevice'.Frequency = mDevice.Frequency
                 /\ mDevice'.UpdateSize = mDevice.UpdateSize
          /\ "ChannelsRequest" \in mDevice.Flags =>
                 mDevice'.FmtChans = mDevice.FmtChans
          /\ TargetEntry = {} =>
                 /\ mDevice'.Frequency = mDevice.Frequency
                 /\ mDevice'.UpdateSize = mDevice.UpdateSize
                 /\ mDevice'.FmtChans = mDevice.FmtChans
          /\ TargetEntry # {} =>
                 LET n == DeviceList[MinOf(TargetEntry)]
                 IN  /\ "FrequencyRequest" \notin mDevice.Flags =>
                            mDevice'.Frequency = IF n.mSampleRate > 0
                                                 THEN n.mSampleRate
                                                 ELSE mDevice.Frequency
                     /\ "ChannelsRequest" \notin mDevice.Flags =>
                            mDevice'.FmtChans =
                                IF n.mChannels # InvalidChannelConfig
                                THEN n.mChannels ELSE mDevice.FmtChans]_vars

\* A reset returned with the pinned frequency kept against the endpoint's
\* other rate, and with the endpoint's channel configuration taken.
C11_Witness ==
    /\ appPc = "done"
    /\ result.op = "pbReset"
    /\ result.status = "ok"
    /\ mDevice.Flags = {"FrequencyRequest"}
    /\ mDevice.Frequency = 44100
    /\ mDevice.FmtChans = "DevFmtMono"
    /\ \E i \in TargetEntry : /\ DeviceList[i].mSampleRate = 192000
                              /\ DeviceList[i].mChannels = "DevFmtMono"

\* C12: after reset, DirectEar is set exactly when the device's FmtChans is
\* stereo and the target's entry is flagged as headphones.
C12_DirectEarOnChosenLayout ==
    [][ResetReads =>
          ("DirectEar" \in mDevice'.Flags <=>
               /\ mDevice'.FmtChans = "DevFmtStereo"
               /\ \E i \in TargetEntry : DeviceList[i].mIsHeadphones)]_vars

\* The calls that connect a stream and wait for it.
ConnectKinds == {"pbReset", "capOpen"}

\* C13: reset and capture open, waiting for their connected stream, go on
\* waiting while its state is neither PAUSED nor ERROR, end with DeviceError
\* when it is ERROR, and return successfully only when it is PAUSED; they
\* return successfully in no other way.
C13_ReturnsWhenPaused ==
    [][/\ (appPc = "connect" /\ session.mStream \notin {"paused", "error"}) =>
              (appPc' = "connect" /\ appOp' = appOp)
       /\ (appPc = "connect" /\ appPc' # "connect") =>
              /\ appPc' = "done"
              /\ result'.op = appOp.kind
              /\ appOp.kind \in ConnectKinds
              /\ session.mStream = "paused" => result'.status = "ok"
              /\ session.mStream = "error" => result'.status = "DeviceError"
       /\ (/\ appPc # "done" /\ appPc' = "done"
           /\ result'.op \in ConnectKinds /\ result'.status = "ok") =>
              /\ appPc = "connect"
              /\ session.mStream = "paused"
              /\ session'.mStream = "paused"]_vars

\* A capture open returned after its stream became paused.
C13_Witness ==
    /\ appPc = "done"
    /\ result.op = "capOpen"
    /\ result.status = "ok"
    /\ session.mStream = "paused"
    /\ session.mRing # <<>>

\* C14: a failure of reset or of capture open is a DeviceError, except the
\* NoDevice of a capture open that found no endpoint to resolve.
C14_StreamFailuresAreDeviceError ==
    [][(appPc # "done" /\ appPc' = "done" /\ result'.op \in ConnectKinds) =>
          /\ result'.status \in {"ok", "DeviceError", "NoDevice"}
          /\ result'.status = "NoDevice" =>
                 /\ result'.op = "capOpen"
                 /\ appOp.name = NullStr
                 /\ C6_Target = 0]_vars

\* C15: when start returns with the stream STREAMING and a rate-match hint
\* of non-zero size, UpdateSize is the hint's size and BufferSize twice
\* that; without a hint or with a hint of size 0, and in every step of start
\* that does not return, UpdateSize and BufferSize stay as they were.
C15_StartTakesHintSize ==
    [][/\ (appPc = "idle" /\ appOp'.kind = "pbStart") => mDevice' = mDevice
       /\ (appPc = "starting" /\ appOp.kind = "pbStart" /\ appPc' = "done") =>
              /\ (/\ result'.status = "ok"
                  /\ session.mStream = "streaming"
                  /\ session.mRateMatch # <<>>
                  /\ session.mRateMatch[1] # 0) =>
                     /\ mDevice'.UpdateSize = session.mRateMatch[1]
                     /\ mDevice'.BufferSize = 2 * mDevice'.UpdateSize
              /\ (session.mRateMatch = <<>> \/ session.mRateMatch[1] = 0) =>
                     /\ mDevice'.UpdateSize = mDevice.UpdateSize
                     /\ mDevice'.BufferSize = mDevice.BufferSize
              /\ session.mStream # "streaming" =>
                     /\ mDevice'.UpdateSize = mDevice.UpdateSize
                     /\ mDevice'.BufferSize = mDevice.BufferSize]_vars

\* start returned with the hint's size taken.
C15_Witness ==
    /\ appPc = "done"
    /\ result.op = "pbStart"
    /\ result.status = "ok"
    /\ session.mStream = "streaming"
    /\ session.mRateMatch = <<512>>
    /\ mDevice.UpdateSize = 512
    /\ mDevice.BufferSize = 1024

\* A step in which a data callback of a session of the given type ran (one
\* that did or logged something).
DataRuns(type) ==
    /\ session.type = type
    /\ session.mStream = "streaming"
    /\ session'.mStream = "streaming"
    /\ session'.mRateMatch = session.mRateMatch
    /\ session'.calls # session.calls \/ session'.avail < session.avail

\* The capacities in frames of the channels outputCallback uses of datas.
UsedCapacities(datas) ==
    {datas[i] \div SizeofFloat : i \in 1..minu(session.mNumChannels, Len(datas))}

\* C16 as claimed: the frames outputCallback renders are the minimum of the
\* hint's size (if there is a hint), UpdateSize and the smallest capacity of
\* the channels used, and so never more than UpdateSize.
C16_MinOfHintUpdateCapacity ==
    [][(DataRuns("Playback") /\ session.avail > 0) =>
          LET datas == session'.calls[1][3]
              hint == IF session.mRateMatch # <<>> THEN {session.mRateMatch[1]}
                      ELSE {}
              length == session'.calls[2][3]
          IN  /\ length = MinOf(hint \cup {mDevice.UpdateSize}
                                     \cup UsedCapacities(datas))
              /\ length <= mDevice.UpdateSize]_vars

\* C16: the frames outputCallback renders are the minimum of the smallest
\* capacity of the channels used and, with a hint, the hint's size, without
\* one, UpdateSize; UpdateSize does not limit them when there is a hint.
C16_MinOfHintOrUpdateAndCapacity ==
    [][(DataRuns("Playback") /\ session.avail > 0) =>
          LET datas == session'.calls[1][3]
              wanted == IF session.mRateMatch # <<>> THEN session.mRateMatch[1]
                        ELSE mDevice.UpdateSize
              length == session'.calls[2][3]
          IN  /\ length = MinOf({wanted} \cup UsedCapacities(datas))
              /\ session.mRateMatch = <<>> => length <= mDevice.UpdateSize
              /\ session'.calls[2] =
                     <<"renderSamples", minu(session.mNumChannels, Len(datas)),
                       length>>
              /\ session'.calls[3] =
                     <<"chunk", 0, SizeofFloat, length * SizeofFloat>>]_vars

\* The smaller capacity of the second channel limited the frames rendered.
C16_Witness ==
    /\ session.type = "Playback"
    /\ session.mStream = "streaming"
    /\ Len(session.calls) = 4
    /\ session.calls[1] = <<"dequeue", TRUE, <<4096, 256>>>>
    /\ session.calls[2] = <<"renderSamples", 2, 64>>

\* The calls of the given name in a callback's log.
CallsOf(calls, name) == {i \in 1..Len(calls) : calls[i][1] = name}

\* C17: a data callback that gets no buffer returns having rendered,
\* written and queued nothing, and nothing is raised; one that gets a buffer
\* queues it exactly once, as the last thing it does.
C17_NoBufferNoWork ==
    [][\A type \in BackendTypes :
          DataRuns(type) =>
              /\ UNCHANGED <<lockOwner, appPc, appOp, mDevice, result>>
              /\ UNCHANGED registryVars
              /\ IF session.avail = 0
                 THEN session' = [session EXCEPT !.calls = <<<<"dequeue", FALSE>>>>]
                 ELSE /\ session'.avail = session.avail - 1
                      /\ session'.calls[1][2]
                      /\ CallsOf(session'.calls, "queue") = {Len(session'.calls)}
                      /\ CallsOf(session'.calls, "dequeue") = {1}]_vars

\* The capture callback found no buffer after one it had worked on.
C17_Witness ==
    /\ session.type = "Capture"
    /\ session.mStream = "streaming"
    /\ session.avail = 0
    /\ session.calls = <<<<"dequeue", FALSE>>>>

\* C18: inputCallback offers the ring buffer the bytes from
\* offset' = min(chunk.offset, maxsize) on, size' = min(chunk.size,
\* maxsize - offset') of them as floor(size' / frame size) frames, so that
\* offset' + size' <= maxsize; and the ring buffer was asked to hold at
\* least Frequency / 10 and at least BufferSize frames of the device's
\* frame size.
C18_CaptureWithinBuffer ==
    /\ [](session.mRing # <<>> =>
             /\ session.mRing[1] >= mDevice.Frequency \div 10
             /\ session.mRing[1] >= mDevice.BufferSize
             /\ session.mRing[1] \in {mDevice.Frequency \div 10, mDevice.BufferSize}
             /\ session.mRing[2] = ChannelsFromDevFmt(mDevice.FmtChans)
                                       * BytesFromDevFmt(mDevice.FmtType))
    /\ [][(DataRuns("Capture") /\ session.avail > 0) =>
             LET buf == session'.calls[1][3]
                 offset == IF buf.chunk.offset < buf.maxsize THEN buf.chunk.offset
                           ELSE buf.maxsize
                 rest == buf.maxsize - offset
                 size == IF buf.chunk.size < rest THEN buf.chunk.size ELSE rest
                 write == session'.calls[2]
             IN  /\ offset + size <= buf.maxsize
                 /\ write = <<"write", offset, size \div session.mRing[2]>>
                 /\ write[2] + write[3] * session.mRing[2] <= buf.maxsize]_vars

\* Of a chunk that claims 200 bytes from offset 8 of a buffer of 64, the 56
\* bytes up to the buffer's end were offered (7 frames of stereo floats).
C18_Witness ==
    /\ session.type = "Capture"
    /\ Len(session.calls) = 3
    /\ session.calls[1][3] = [chunk |-> [offset |-> 8, size |-> 200], maxsize |-> 64]
    /\ session.calls[2] = <<"write", 8, 7>>

\* The step in which getClockLatency returns.
ClockReturns == appPc = "idle" /\ appPc' = "done" /\ result'.op = "pbClock"

\* C19: getClockLatency returns the sampled mix time as ClockTime and a
\* latency that is never negative; with a stream rate reported (the tick
\* count has a duration), the latency is max(0, serverDelay + max(0,
\* mixTime - streamTickTime) - (now - lastReportedTickWallClock)), where
\* streamTickTime is mTimeBase plus the duration of the tick count.
C19_LatencyFormula ==
    [][ClockReturns =>
          LET c == result'.clock[1]
              p == c.ptime
          IN  /\ c.ret.ClockTime = c.mixtime
              /\ c.ret.Latency >= 0
              /\ p.rate.denom >= 1 =>
                     LET serverDelay ==
                             TruncDiv(p.delay * p.rate.num * NanosPerSecond,
                                      p.rate.denom)
                         streamTickTime ==
                             session.mTimeBase
                                 + (p.ticks * p.rate.num * NanosPerSecond)
                                       \div p.rate.denom
                         ahead == IF c.mixtime - streamTickTime > 0
                                  THEN c.mixtime - streamTickTime ELSE 0
                         latency == serverDelay + ahead - (c.monoclock - p.now)
                     IN  c.ret.Latency = IF latency > 0 THEN latency ELSE 0]_vars

\* Two ticks of a third of a second, a delay of one tick, the mixer 0.9 s
\* into a stream created at 0, 400 ns after the report.
C19_Witness ==
    /\ appPc = "done"
    /\ result.op = "pbClock"
    /\ session.mTimeBase = 0
    /\ result.clock[1].ptime =
           [now |-> 0, rate |-> [num |-> 1, denom |-> 3], ticks |-> 2, delay |-> 1]
    /\ result.clock[1].mixtime = 900000000
    /\ result.clock[1].monoclock = 400
    /\ result.clock[1].ret = [ClockTime |-> 900000000, Latency |-> 566666267]

\* C20: without a stream, and with a stream that has reported no rate
\* (denominator < 1), getClockLatency returns as latency BufferSize seconds
\* divided by Frequency, in nanoseconds rounded down, whatever the time
\* base, the mix time and the clocks are, and the sampled mix time as
\* ClockTime.
C20_DummyLatency ==
    [][ClockReturns =>
          LET c == result'.clock[1]
          IN  (session.mStream = "null" \/ c.ptime.rate.denom < 1) =>
                  /\ c.ret.Latency =
                         (mDevice.BufferSize * NanosPerSecond) \div mDevice.Frequency
                  /\ c.ret.ClockTime = c.mixtime]_vars

\* A stream created at 0.1 s that reports no rate yet: two frames of 44100
\* Hz, although the mixer is ahead and the report's time is 0.7 s old.
C20_Witness ==
    /\ appPc = "done"
    /\ result.op = "pbClock"
    /\ session.mStream = "streaming"
    /\ session.mTimeBase = 100000000
    /\ mDevice.Frequency = 44100
    /\ result.clock[1].ptime.rate.denom = 0
    /\ result.clock[1].ptime.now = 0
    /\ result.clock[1].monoclock = 700000000
    /\ result.clock[1].ret = [ClockTime |-> 900000000, Latency |-> 45351]

\* The steps in which the one node's EnumFormat parameter param is parsed
\* for an entry of the registry.
ParsesParam(param) ==
    /\ FindDeviceNode(DeviceList, 1) # End(DeviceList)
    /\ SrvParam(1, "SPA_PARAM_EnumFormat", param)

\* The entry of node 1 before and after the step.
ParamNode == DeviceList[FindDeviceNode(DeviceList, 1)]
ParamNodeAfter == DeviceList'[FindDeviceNode(DeviceList, 1)]

RateInRange(rate) == rate >= MIN_OUTPUT_RATE /\ rate <= MAX_OUTPUT_RATE

\* C21: for an enumerated sample rate choice the entry's rate becomes the
\* first of the listed values, default first, within [MIN_OUTPUT_RATE,
\* MAX_OUTPUT_RATE], so the default whenever it is in range; with no value
\* in range, or none listed, the rate stays what it was.
C21_EnumFirstInRange ==
    [][\A param \in ParamInputs :
          (/\ param.rate # <<>>
           /\ param.rate[1].podType = "Int"
           /\ param.rate[1].choice = "Enum"
           /\ ParsesParam(param)) =>
              LET vals == param.rate[1].vals
                  hits == {k \in 1..Len(vals) : RateInRange(vals[k])}
              IN  /\ \A k \in hits :
                         (\A j \in 1..(k - 1) : ~RateInRange(vals[j])) =>
                             ParamNodeAfter.mSampleRate = vals[k]
                  /\ (Len(vals) > 0 /\ RateInRange(vals[1])) =>
                         ParamNodeAfter.mSampleRate = vals[1]
                  /\ hits = {} => ParamNodeAfter.mSampleRate = ParamNode.mSampleRate]_vars

\* The entry is at 44100 Hz, which only the choice [4000, 44100, 96000]
\* yields: its default is below the range and 44100 is the first value in
\* it.
C21_Witness ==
    /\ FindDeviceNode(DeviceList, 1) # End(DeviceList)
    /\ DeviceList[FindDeviceNode(DeviceList, 1)].mSampleRate = 44100

\* The canonical layouts from the largest to the smallest, with the
\* configuration each stands for.
CanonicalLayouts ==
    <<<<X71Map, "DevFmtX71">>, <<X61Map, "DevFmtX61">>, <<X51Map, "DevFmtX51">>,
      <<X51RearMap, "DevFmtX51">>, <<QuadMap, "DevFmtQuad">>,
      <<StereoMap, "DevFmtStereo">>>>

\* The canonical layouts all of whose channels occur in chanmap.
LayoutsIn(chanmap) ==
    {k \in 1..Len(CanonicalLayouts) :
        \A c \in 1..Len(CanonicalLayouts[k][1]) :
            \E j \in 1..Len(chanmap) : chanmap[j] = CanonicalLayouts[k][1][c]}

\* C22: on a format event with a position list, the entry's configuration
\* is that of the largest canonical layout whose channels all occur in the
\* list; when none matches, 2 or more positions give stereo and exactly 1
\* gives mono.
C22_LargestLayoutElseCount ==
    [][\A param \in ParamInputs :
          (/\ param.position # <<>>
           /\ Len(param.position[1]) > 0
           /\ ParsesParam(param)) =>
              LET chanmap == param.position[1]
                  fits == LayoutsIn(chanmap)
              IN  /\ fits # {} =>
                         ParamNodeAfter.mChannels = CanonicalLayouts[MinOf(fits)][2]
                  /\ (fits = {} /\ Len(chanmap) >= 2) =>
                         ParamNodeAfter.mChannels = "DevFmtStereo"
                  /\ (fits = {} /\ Len(chanmap) = 1) =>
                         ParamNodeAfter.mChannels = "DevFmtMono"]_vars

\* The names a JSON value gives under the key "name" (none when it is no
\* object).
NamesIn(value) ==
    IF ~value.object THEN {}
    ELSE {JsonParseString(value.tokens[k + 1]) :
             k \in {j \in 1..(Len(value.tokens) - 1) :
                       j % 2 = 1 /\ value.tokens[j] = Quote(NameKey)}}

\* C23: a property event for the core subject with the key of a default and
\* no type empties that default and leaves the other; with type
\* Spa:String:JSON and an object with a name it sets that default to the
\* name and leaves the other; an event for another subject, another key or
\* another type changes neither.
C23_PropertySetsDefault ==
    [][\A in \in MetaInputs :
          (mDefaultMetadata # NullProxy /\ SrvProperty(in)) =>
              LET forCore == in.id = PW_ID_CORE
                  sink == in.key = "default.audio.sink"
                  source == in.key = "default.audio.source"
                  json == in.type = "Spa:String:JSON"
              IN  /\ (forCore /\ sink /\ in.type = NullProp) =>
                         /\ DefaultSinkDev' = EmptyStr
                         /\ DefaultSourceDev' = DefaultSourceDev
                  /\ (forCore /\ source /\ in.type = NullProp) =>
                         /\ DefaultSourceDev' = EmptyStr
                         /\ DefaultSinkDev' = DefaultSinkDev
                  /\ (forCore /\ sink /\ json /\ NamesIn(in.value) # {}) =>
                         /\ NamesIn(in.value) = {DefaultSinkDev'}
                         /\ DefaultSourceDev' = DefaultSourceDev
                  /\ (forCore /\ source /\ json /\ NamesIn(in.value) # {}) =>
                         /\ NamesIn(in.value) = {DefaultSourceDev'}
                         /\ DefaultSinkDev' = DefaultSinkDev
                  /\ (~forCore \/ ~(sink \/ source)
                          \/ in.type \notin {NullProp, "Spa:String:JSON"}) =>
                         /\ DefaultSinkDev' = DefaultSinkDev
                         /\ DefaultSourceDev' = DefaultSourceDev]_vars

\* The default sink was cleared after both defaults had been set, the
\* source from an object that names it after another key.
C23_Witness ==
    /\ mDefaultMetadata # NullProxy
    /\ DefaultSinkDev = EmptyStr
    /\ DefaultSourceDev = DevB

\* C24: DefaultSinkDev and DefaultSourceDev change only in a step that
\* delivers a property event to the default metadata object; adding and
\* removing an endpoint, node info and param events, the removal of the
\* metadata object and the calls of the sessions and of probe leave both.
C24_DefaultsOnlyByProperty ==
    [][/\ (DefaultSinkDev' # DefaultSinkDev \/ DefaultSourceDev' # DefaultSourceDev) =>
              /\ mDefaultMetadata # NullProxy
              /\ \E in \in SessionProperties : SrvProperty(in)
       /\ \A id \in {1, 2} :
              (SrvGlobalRemove(id) \/ SrvGlobal(id, NodeAdd) \/ SrvGlobal(id, MetaAdd)) =>
                  UNCHANGED <<DefaultSinkDev, DefaultSourceDev>>
       /\ (lockOwner = App \/ appPc # appPc') =>
              UNCHANGED <<DefaultSinkDev, DefaultSourceDev>>]_vars

\* Both defaults are still set after the metadata object was removed, and a
\* session that was opened with them has been stopped.
C24_Witness ==
    /\ mDefaultMetadata = NullProxy
    /\ DefaultSinkDev = DevA
    /\ DefaultSourceDev = DevA
    /\ appPc = "done"
    /\ result.op = "pbStop"
    /\ result.status = "ok"

\* The positions of a release log at which the named call is made; an entry
\* of a log is a tuple headed by the call's name.
ReleasesOf(calls, name) == {i \in 1..Len(calls) : calls[i][1] = name}

\* The named call is made exactly once if the handle was acquired and not at
\* all if it is null.
ReleasedIff(calls, name, acquired) ==
    Cardinality(ReleasesOf(calls, name)) = IF acquired THEN 1 ELSE 0

\* C25: teardown tolerates partial initialization.  Whatever step
\* EventManager::init failed at, ~EventManager stops and destroys the loop,
\* destroys the context, disconnects the core and destroys the registry and
\* the metadata proxy exactly when the handle was acquired, and never when
\* it is null; a destroyed playback or capture session locks its loop only
\* if it has one, destroys its stream and its loop exactly when they exist,
\* and destroys a stream only between locking and unlocking the loop.
C25_TeardownToleratesPartialInit ==
    [][/\ (appPc' = "exited") =>
              LET calls == result'.calls
              IN  /\ ReleasedIff(calls, "loop_stop", evt.mLoop)
                  /\ ReleasedIff(calls, "loop_destroy", evt.mLoop)
                  /\ ReleasedIff(calls, "context_destroy", evt.mContext)
                  /\ ReleasedIff(calls, "core_disconnect", evt.mCore)
                  /\ ReleasedIff(calls, "registry_destroy", evt.mRegistry)
                  /\ ReleasedIff(calls, "metadata_destroy",
                                 mDefaultMetadata # NullProxy)
                  /\ \E i \in 1..Len(calls) : calls[i] = <<"node_destroy", mProxyList>>
                  /\ evt' = [NullHandles EXCEPT !.initCalled = TRUE]
       /\ (session.type # "none" /\ session'.type = "none") =>
              LET calls == result'.calls
              IN  /\ ReleasedIff(calls, "stream_destroy", session.mStream # "null")
                  /\ ReleasedIff(calls, "loop_destroy", session.mLoop # "null")
                  /\ ReleasesOf(calls, "lock") # {} => session.mLoop # "null"
                  /\ \A i \in ReleasesOf(calls, "stream_destroy") :
                         /\ i > 1 /\ calls[i - 1] = <<"lock">>
                         /\ i < Len(calls) /\ calls[i + 1] = <<"unlock">>
                  /\ \A i \in ReleasesOf(calls, "loop_destroy") : i = Len(calls)]_vars

\* The event manager was destroyed after init failed at the connect step:
\* the loop and the context were released, and nothing else.
C25_Witness ==
    /\ appPc = "exited"
    /\ result.calls = <<<<"loop_stop">>, <<"node_destroy", {}>>,
                        <<"context_destroy">>, <<"loop_destroy">>>>

\* The step is taken by open with the registry section finding an endpoint.
OpenResolves ==
    /\ appPc = "read"
    /\ \/ appOp.kind = "pbOpen" /\ PlaybackResolve(appOp.name).found
       \/ appOp.kind = "capOpen" /\ CaptureResolve(appOp.name).found

\* C26: a session creates its event loop at most once.  A new session has no
\* loop; the loop changes only in an open that found an endpoint while the
\* session had none, and an open that goes on after that has created and
\* started it; every other step of the session (a later open, reset, start,
\* stop, a stream event) leaves the loop as it is, and reset replaces only
\* the stream.
C26_LoopCreatedOnce ==
    [][/\ session'.loops <= 1
       /\ (session.type = "none" /\ session'.type # "none") =>
              session'.mLoop = "null" /\ session'.loops = 0
       /\ (session.type # "none" /\ session'.type # "none") =>
              /\ (session'.mLoop # session.mLoop \/ session'.loops # session.loops) =>
                     /\ OpenResolves
                     /\ session.mLoop = "null" /\ session.loops = 0
                     /\ session'.loops = 1
              /\ (OpenResolves /\ session.mLoop = "null"
                      /\ (appPc' = "connect" \/ result'.status = "ok")) =>
                     session'.mLoop = "running" /\ session'.loops = 1
              /\ (appPc = "idle" /\ appOp'.kind = "pbReset") =>
                     session'.mStream = "null"
              /\ (appPc = "read" /\ appOp.kind = "pbReset" /\ appPc' = "connect") =>
                     session'.mStream = "connecting"]_vars

\* An open has returned for a session that already has a stream from an
\* earlier reset or open, and the session has its one loop.
C26_Witness ==
    /\ appPc = "done"
    /\ result.op \in OpenKinds
    /\ result.status = "ok"
    /\ session.mStream = "paused"
    /\ session.mLoop = "running"
    /\ session.loops = 1

\* The sample at position i of the stream fed to the encoder so far, behind
\* sFilterDelay zeros.
DelayedFrame(i) ==
    IF i <= sFilterDelay THEN ZeroFrame ELSE uhj.fed[i - sFilterDelay]

\* C27: whatever the sample counts of the encode calls, the mid values and
\* the direct side values of the concatenated output are those of the
\* concatenated input delayed by sFilterDelay samples, zeros first; and the
\* first sFilterDelay elements of mS and mD after a call are the values of
\* the last sFilterDelay input samples, in order, with no phase-shifted term
\* on them.
C27_DelayLineContinuity ==
    uhj.pc = "encode" =>
        LET n == Len(uhj.fed)
        IN  /\ Len(uhj.out) = n
            /\ \A i \in 1..n :
                   /\ uhj.out[i].mS = MidOf(DelayedFrame(i))
                   /\ uhj.out[i].mD.direct = SideDirectOf(DelayedFrame(i))
            /\ \A i \in 1..sFilterDelay :
                   /\ uhj.encoder.mS[i] = MidOf(DelayedFrame(n + i))
                   /\ uhj.encoder.mD[i] = SideOf(SideDirectOf(DelayedFrame(n + i)))

\* MaxFed samples went through calls of one, two and three samples, and the
\* first of them, which was not silent, has come out.
C27_Witness ==
    /\ uhj.pc = "encode"
    /\ Len(uhj.fed) = MaxFed
    /\ {1, 2, 3} \subseteq uhj.counts
    /\ uhj.fed[1] # ZeroFrame
    /\ uhj.out[sFilterDelay + 1].mS = MidOf(uhj.fed[1])

\* Left and Right are zero: mS, the direct mD and every window the phase
\* shifter read for the sample are zero.
ZeroOut(o) ==
    /\ o.mS = 0
    /\ o.mD.direct = 0
    /\ \A k \in 1..Len(o.mD.shift) :
           \A j \in 1..Len(o.mD.shift[k]) : o.mD.shift[k][j] = 0

\* The step is an encode call of an all-zero block that follows a run of at
\* least run zero samples (or only zero samples), after some other input.
ZeroBlockAfter(run) ==
    /\ uhj.pc = "encode"
    /\ Len(uhj'.fed) > Len(uhj.fed)
    /\ \A i \in (Len(uhj.fed) + 1)..Len(uhj'.fed) : uhj'.fed[i] = ZeroFrame
    /\ Len(uhj.fed) >= run
    /\ \A i \in (Len(uhj.fed) - run + 1)..Len(uhj.fed) : uhj.fed[i] = ZeroFrame

\* The samples the step's encode call returned.
StepOut == SubSeq(uhj'.out, Len(uhj.out) + 1, Len(uhj'.out))

\* C28 as claimed: once a run of sFilterDelay zero samples has been fed,
\* every further all-zero block gives all-zero Left and Right output.
C28_ZeroAfterDelayRun ==
    [][ZeroBlockAfter(sFilterDelay) =>
           \A i \in 1..Len(StepOut) : ZeroOut(StepOut[i])]_vars

\* C28, amended: once a run of 2*sFilterDelay - 1 zero samples has been fed,
\* the length of the phase shifter's history, every further all-zero block
\* gives all-zero Left and Right output.
C28_ZeroAfterHistoryRun ==
    [][ZeroBlockAfter(sFilterDelay * 2 - 1) =>
           \A i \in 1..Len(StepOut) : ZeroOut(StepOut[i])]_vars

\* A sample that was not silent, then 2*sFilterDelay - 1 silent ones, then a
\* silent block whose output is zero.
C28_Witness ==
    /\ uhj.pc = "encode"
    /\ Len(uhj.fed) > sFilterDelay * 2
    /\ uhj.fed[1] # ZeroFrame
    /\ \A i \in 2..Len(uhj.fed) : uhj.fed[i] = ZeroFrame
    /\ ZeroOut(uhj.out[Len(uhj.out)])
    /\ ~ZeroOut(uhj.out[sFilterDelay * 2])

\* C29: the conversion loop ends for every input length; it has then fed the
\* encoder every frame of the file in order and sFilterDelay frames of
\* silence after them, and has written as many frames as the file holds,
\* the encoder's output from its frame sFilterDelay + 1 on.
C29_ConversionLoop ==
    /\ <>(uhj.pc = "done")
    /\ [](uhj.pc = "done" =>
              LET n == Len(uhj.file)
              IN  /\ uhj.fed = [i \in 1..(n + sFilterDelay) |->
                                   IF i <= n THEN i ELSE 0]
                  /\ uhj.total_wrote = n
                  /\ uhj.wrote = [i \in 1..n |-> sFilterDelay + i]
                  /\ uhj.pos = n)

\* The loop has ended for a file of MaxFrames frames.
C29_Witness ==
    /\ uhj.pc = "done"
    /\ Len(uhj.file) = MaxFrames
    /\ uhj.total_wrote = MaxFrames
    /\ Len(uhj.fed) = MaxFrames + sFilterDelay

\* The stereo map's two speakers have been passed.
StereoMapped == uhj.pc = "map" /\ uhj.spkrs = "StereoMap" /\ Len(uhj.coeffs) = 2

\* C30 as claimed: for the stereo map, coeffs[1] (the X gain) is positive for
\* the left speaker and negative for the right one, with equal magnitude.
C30_XGainOpposite ==
    StereoMapped =>
        /\ uhj.coeffs[1][2] > 0
        /\ uhj.coeffs[2][2] < 0
        /\ uhj.coeffs[1][2] = -uhj.coeffs[2][2]

\* C30, amended: for the stereo map, coeffs[1] (the X gain) is positive and
\* the same for both speakers, and coeffs[2] (the Y gain) is positive for the
\* left speaker and negative for the right one, with equal magnitude.
C30_YGainOpposite ==
    StereoMapped =>
        /\ uhj.coeffs[1][2] > 0
        /\ uhj.coeffs[2][2] = uhj.coeffs[1][2]
        /\ uhj.coeffs[1][3] > 0
        /\ uhj.coeffs[2][3] < 0
        /\ uhj.coeffs[1][3] = -uhj.coeffs[2][3]

\* Both speakers of the stereo map were passed with a sample of 1: the X
\* gains have added up and the Y gains have cancelled.
C30_Witness ==
    /\ StereoMapped
    /\ uhj.ambmem[1] = 2000
    /\ uhj.ambmem[2] = 2 * uhj.coeffs[1][2]
    /\ uhj.ambmem[3] = 0

(***************************************************************************)
(* C31: the sample rate of a registry entry.                               *)
(***************************************************************************)
\* The rate payload of param is one the parser takes no value from: its
\* values are no integers, its choice type is none of range, enumeration and
\* none, or it has not as many values as its choice type asks for.
RateUnusable(param) ==
    LET value == param.rate[1]
    IN  \/ value.podType # "Int"
        \/ value.choice \notin {"Range", "Enum", "None"}
        \/ value.choice = "Range" /\ Len(value.vals) # 3
        \/ value.choice = "Enum" /\ Len(value.vals) = 0
        \/ value.choice = "None" /\ Len(value.vals) # 1

\* C31: after any sequence of format events the sample rate of every entry
\* of the registry is 0 or within [MIN_OUTPUT_RATE, MAX_OUTPUT_RATE]; a
\* single value and the default of a range are stored clamped into the
\* interval, an enumeration stores nothing but a value in range, and a rate
\* payload with values that are no integers, with another choice type or
\* with an unexpected count of values leaves the rate what it was.
C31_RateZeroOrInRange ==
    /\ [](\A i \in 1..Len(DeviceList) :
             \/ DeviceList[i].mSampleRate = 0
             \/ RateInRange(DeviceList[i].mSampleRate))
    /\ [][\A param \in ParamInputs :
             (param.rate # <<>> /\ ParsesParam(param)) =>
                 LET value == param.rate[1]
                 IN  /\ RateUnusable(param) =>
                            ParamNodeAfter.mSampleRate = ParamNode.mSampleRate
                     /\ (~RateUnusable(param) /\ value.choice \in {"Range", "None"}) =>
                            ParamNodeAfter.mSampleRate =
                                clampi(value.vals[1], MIN_OUTPUT_RATE, MAX_OUTPUT_RATE)
                     /\ (~RateUnusable(param) /\ value.choice = "Enum") =>
                            \/ ParamNodeAfter.mSampleRate = ParamNode.mSampleRate
                            \/ \E k \in 1..Len(value.vals) :
                                   /\ RateInRange(value.vals[k])
                                   /\ ParamNodeAfter.mSampleRate = value.vals[k]]_vars

\* The entry is at MIN_OUTPUT_RATE, which only the range with the default
\* 1000 yields, clamped up into the interval.
C31_Witness ==
    /\ FindDeviceNode(DeviceList, 1) # End(DeviceList)
    /\ DeviceList[FindDeviceNode(DeviceList, 1)].mSampleRate = MIN_OUTPUT_RATE

(***************************************************************************)
(* C32: the ids of the registry's entries.                                 *)
(***************************************************************************)
\* C32: no two entries of DeviceList have the same id in any reachable
\* state, and an info event for an id that has an entry changes that entry
\* where it is and adds none, for any interleaving of add, info, param and
\* remove events.
C32_IdsUnique ==
    /\ [](\A i, j \in 1..Len(DeviceList) :
             DeviceList[i].mId = DeviceList[j].mId => i = j)
    /\ [][\A id \in RegistryIds, props \in RegistryInfoInputs :
             (HasEntry(id) /\ DeviceList' # DeviceList /\ SrvNodeInfo(id, props)) =>
                 /\ Len(DeviceList') <= Len(DeviceList)
                 /\ \A k \in 1..Len(DeviceList') :
                        DeviceList'[k].mId = id =>
                            /\ k = FindDeviceNode(DeviceList, id)
                            /\ Len(DeviceList') = Len(DeviceList)
                 /\ \A k \in 1..Len(DeviceList) :
                        DeviceList[k].mId # id =>
                            \E l \in 1..Len(DeviceList') :
                                DeviceList'[l] = DeviceList[k]]_vars

\* Two entries, and the one of node 1, first in the list, was described a
\* second time: it has the name that only the info with a nick gives.
C32_Witness ==
    /\ Len(DeviceList) = 2
    /\ DeviceList[1].mId = 1
    /\ DeviceList[2].mId = 2
    /\ DeviceList[1].mName = NameN
    /\ DeviceList[2].mName = NameA

(***************************************************************************)
(* C33: how entries of the registry come to be and go.                     *)
(***************************************************************************)
Usable(str) == str # NullStr /\ str # EmptyStr

\* The display name an info with props gives node id: the description, else
\* the nick, else the node name, else the numbered name.
ExpectedName(id, props) ==
    IF Usable(props.description) THEN props.description
    ELSE IF Usable(props.nick) THEN props.nick
    ELSE IF Usable(props.name) THEN props.name
    ELSE NodeNumberPrefix \o to_string(id)

IsSinkOrSource(media_class) ==
    StrCaseEq(media_class, AudioSinkClass) \/ StrCaseEq(media_class, AudioSourceClass)

\* The step is an info event for id with a sink or source media class that
\* leaves an entry for id with the direction of the class and the expected
\* display name.
CreatedByInfo(id) ==
    \E props \in RegistryInfoInputs :
        /\ props.change_props
        /\ props.media_class # NullProp
        /\ IsSinkOrSource(props.media_class)
        /\ SrvNodeInfo(id, props)
        /\ LET n == DeviceList'[FindDeviceNode(DeviceList', id)]
           IN  /\ n.mCapture = StrCaseEq(props.media_class, AudioSourceClass)
               /\ n.mName = ExpectedName(id, props)

\* C33: an entry of the registry appears only in the step of a node info
\* event with a sink or source media class, which gives it its direction
\* and its display name (description, else nick, else node name, else
\* 'PipeWire node #<id>'); so every entry has a display name that is not
\* empty and a NodeProxy with its id in mProxyList.  A format event for an
\* id without an entry leaves the registry as it is, and an info event with
\* another media class removes the entry of its id.
C33_EntriesFromInfoOnly ==
    /\ [](\A i \in 1..Len(DeviceList) :
             /\ Usable(DeviceList[i].mName)
             /\ DeviceList[i].mCapture \in BOOLEAN
             /\ HasProxy(DeviceList[i].mId))
    /\ [][\A id \in RegistryIds :
             /\ (~HasEntry(id) /\ HasEntry(id)') => CreatedByInfo(id)
             /\ (~HasEntry(id) /\ DeviceList' # DeviceList) =>
                    \A pid \in ParamIds : ~SrvParam(id, pid, SessionParam)
             /\ \A props \in RegistryInfoInputs :
                    (/\ props.change_props
                     /\ props.media_class # NullProp
                     /\ ~IsSinkOrSource(props.media_class)
                     /\ SrvNodeInfo(id, props)) => ~HasEntry(id)']_vars

\* A source entry named by number: node 2 was described with no description,
\* nick or node name.  Node 1 is bound and has no entry, as after a format
\* event alone or an info with another media class.
C33_Witness ==
    /\ Len(DeviceList) = 1
    /\ DeviceList[1].mId = 2
    /\ DeviceList[1].mCapture
    /\ DeviceList[1].mName = NodeNumberPrefix \o to_string(2)
    /\ HasProxy(1)

(***************************************************************************)
(* C34: the sample of mixer time and monotonic clock.                      *)
(***************************************************************************)
\* C34: the loop of getClockLatency is left with a sample exactly when the
\* count read after sampling is the count waitForMix returned, and repeated
\* otherwise; the sample it is left with was taken with no step of the
\* mixer since waitForMix returned, so its mixer time is the device clock at
\* the time of the monotonic timestamp; an iteration throughout which the
\* mixer is idle ends the loop, and every call returns.
C34_SampleWithoutMix ==
    /\ [][(appPc = "while" /\ appPc' # appPc) =>
             /\ (appPc' = "waitForMix") = (appOp.refcount # mDevice.MixCount)
             /\ (appPc' = "done") = (appOp.refcount = mDevice.MixCount)
             /\ (appPc' = "done") = ~appOp.mixed
             /\ (appPc' = "done") =>
                    /\ result'.clock[1].mixtime = GetDeviceClockTime(mDevice)
                    /\ result'.clock[1].monoclock = appOp.tspec
                    /\ mDevice.MixCount % 2 = 0]_vars
    /\ ((appPc = "waitForMix") ~> (appPc = "done"))

\* A call returned a sample taken after a mix, in its second iteration or
\* later: the device clock of the sample is past its start.
C34_Witness ==
    /\ appPc = "done"
    /\ result.op = "pbClock"
    /\ result.clock[1].mixtime > 0
    /\ appOp.refcount > 0
    /\ mDevice.MixCount < 2 * MaxMixes

(***************************************************************************)
(* C35: the rate-match hint of a playback session.                         *)
(***************************************************************************)
\* C35: after any sequence of reset and io-changed events the hint
\* mRateMatch of a playback session is null or the area that the most
\* recent SPA_IO_RateMatch change of the current stream's I/O areas
\* delivered: null after a reset, and null after a change that withdrew the
\* area or supplied one smaller than a spa_io_rate_match, so the data
\* callback reads no hint of an area the stream no longer has.
C35_HintNullOrCurrentArea ==
    session.type = "Playback" =>
        /\ session.ioArea = "unset" => session.mRateMatch = <<>>
        /\ session.ioArea = "unusable" => session.mRateMatch = <<>>
        /\ session.ioArea = "usable" => session.mRateMatch # <<>>

(***************************************************************************)
(* C36, C37: the names of probe and the direction of a playback target.    *)
(***************************************************************************)
\* C36: every name a probe returns is accepted by open of the same
\* direction while the registry and the default names stay as they are:
\* each name of probe(Playback) resolves in PipeWirePlayback::open, each
\* name of probe(Capture), the monitors' names among them, resolves in
\* PipeWireCapture::open, and none ends with NoDevice.  (probe changes only
\* the order of the registry, which finding a name does not depend on.)
C36_ProbeNamesOpen ==
    [][CallEnds(ProbeKinds) =>
           /\ {DeviceList'[i] : i \in 1..Len(DeviceList')}
                  = {DeviceList[i] : i \in 1..Len(DeviceList)}
           /\ \A i \in 1..Len(result'.names) :
                  IF appOp.kind = "probePlayback"
                  THEN PlaybackResolve(result'.names[i]).found
                  ELSE CaptureResolve(result'.names[i]).found]_vars

\* C37: a playback session never targets a capture endpoint: the entry
\* that a successful PipeWirePlayback::open resolves, with or without a
\* name, is of playback direction, and so is the entry of the first name
\* that probe(Playback) returns.
C37_PlaybackTargetsPlayback ==
    [][/\ (CallEnds({"pbOpen"}) /\ result'.status = "ok") =>
             /\ \E k \in 1..Len(DeviceList) :
                    DeviceList[k].mId = session'.mTargetId
             /\ \A k \in 1..Len(DeviceList) :
                    DeviceList[k].mId = session'.mTargetId =>
                        ~DeviceList[k].mCapture
       /\ (CallEnds({"probePlayback"}) /\ result'.names # <<>>) =>
             \E k \in 1..Len(DeviceList) :
                 /\ ~DeviceList[k].mCapture
                 /\ DeviceList[k].mName = result'.names[1]]_vars

(***************************************************************************)
(* C38: the loop of a session that was opened.                             *)
(***************************************************************************)
\* C38: whenever open has returned successfully the session's loop is
\* running, also after an earlier open of the session ended with
\* DeviceError because the loop it created did not start; so a call that
\* waits on the loop for its stream (reset, or the open of a capture
\* session) waits on a loop that dispatches events.
C38_OpenedLoopRuns ==
    /\ (appPc = "done" /\ result.op \in OpenKinds /\ result.status = "ok") =>
           session.mLoop = "running"
    /\ appPc = "connect" => session.mLoop = "running"

\* C39: whenever a call of open, reset, start, stop, getClockLatency or a
\* probe has ended, by a return or by a thrown NoDevice or DeviceError, the
\* calling thread holds neither the watcher's lock nor the lock of the
\* session's loop.
C39_NoLockAtExit ==
    appPc \in {"done", "idle"} => lockOwner # App /\ ~session.locked

\* start has waited under the loop's lock and has ended with a DeviceError.
C39_Witness ==
    /\ appPc = "done"
    /\ result.op \in {"pbStart", "capStart"}
    /\ result.status = "DeviceError"
    /\ session.mStream = "error"
    /\ session.active
    /\ lockOwner # App
    /\ ~session.locked

\* C40: when start ends after its wait, it returns normally only if the
\* state it has observed is streaming, and it ends with a DeviceError for
\* every other state that is not paused.
C40_StartOnlyWhenStreaming ==
    [][(appPc = "starting" /\ appPc' = "done") =>
           /\ result'.op \in {"pbStart", "capStart"}
           /\ result'.status = (IF session.mStream = "streaming"
                                 THEN "ok" ELSE "DeviceError")]_vars
=========================================================================
